---- MODULE Spec2Model ----
(***************************************************************************)
(* A model of the connection / subscription layer of tf_strategy:          *)
(*   AsyncEvent        tf_strategy/common/async_event.py                   *)
(*   AsyncWSListener   tf_strategy/common/connection/ws_listener.py        *)
(*   BinancePublicWS   tf_strategy/binance/ws/public_ws.py                 *)
(*   BinancePrivateWS  tf_strategy/binance/ws/private_ws.py                *)
(*   BinanceWrapper    tf_strategy/binance/wrapper.py                      *)
(*   PrivateWSListener tf_strategy/binance/ws/ws_private_listener.py       *)
(*                                                                         *)
(* Scheduling is asyncio's: one thread, tasks interleave only where an     *)
(* await really suspends.  asyncio.Lock.acquire on a free lock,            *)
(* Queue.put on an unbounded queue and a callback that is None do not      *)
(* suspend, so the code between two real suspension points is one action.  *)
(* The critical sections of AsyncEvent hold no await, so its lock is never *)
(* held at a suspension point and never contended.                         *)
(*                                                                         *)
(* Eight specifications share the module:                                  *)
(*   SpecEvent     one AsyncEvent under add / remove / emit                *)
(*   SpecRegistry  BinancePublicWS under its public calls and dispatch     *)
(*   SpecPrivate   BinancePrivateWS under its calls, the connects and      *)
(*                 drops of its listener and the frames it dispatches      *)
(*   SpecFacade    BinanceWrapper under start / stop / refresh and its     *)
(*                 two cache handlers                                      *)
(*   SpecSession   PrivateWSListener under start / stop, its connect loop  *)
(*                 and its keepalive task                                  *)
(*   Spec          one AsyncWSListener under start / stop / send and the   *)
(*                 transport's behaviour                                   *)
(*   SpecLive      the listener without traffic, under fair scheduling     *)
(*   SpecBoot      the first start() against a server that refuses the     *)
(*                 first K connection attempts, with time counted          *)
(***************************************************************************)
EXTENDS Integers, Sequences, FiniteSets, TLC

(***************************************************************************)
(* Bounds of the model                                                     *)
(***************************************************************************)
MaxEvTokens == 2
MaxEmits == 2
MaxRegTokens == 3
MaxRegCalls == 4
MaxTasks == 2
MaxConns == 2
MaxMsgs == 2
MaxFrames == 1
MaxFailFirst == 7
MaxCalls == 4
MaxPvConns == 2
MaxPvTokens == 2
MaxPvCalls == 5
MaxDelta == 2
MaxWrCalls == 3
MaxPsCalls == 4
MaxRenewals == 2

VARIABLES
    \* ---- AsyncEvent ----
    evHandlers,     \* _handlers: a function from the registered keys to their handler
    evPc,           \* per emit call: "idle", "gather", "returned", "raised"
    evSnap,         \* per emit call: the list(self._handlers.values()) snapshot, by key
    evChild,        \* per emit call and key: the state of the task gather() made
    evInvoked,      \* per emit call and key: how many times the handler was entered
    \* ---- BinancePublicWS ----
    regStarted,     \* _is_started
    regListener,    \* _listener: "None" or "listener"
    regSubs,        \* _subscriptions: key -> the key set of that key's AsyncEvent
    regHandlers,    \* _handlers: token -> key
    regNextTok,     \* how many uuid4 tokens were minted
    regSent,        \* what the registry handed to listener.send, in order
    regLast,        \* the last call: its operation, arguments and outcome
    regCalls,       \* how many calls were made (bounds the run)
    \* ---- AsyncWSListener ----
    stopEvent,      \* _stop_event.is_set(); is_started is its negation
    startEvent,     \* _start_event.is_set(); is_connected
    lsTask,         \* _task: the id of a listen task, 0 for None
    lsSendTask,     \* _send_task: the id of a send task, 0 for None
    lsWs,           \* _ws: the id of a transport, 0 for None
    queue,          \* _send_queue: message ids, 0 for the None sentinel
    lt,             \* the tasks running _listen, by id
    st,             \* the tasks running _send_loop, by id
    tr,             \* the transports websockets.connect returned, by id
    callers,        \* the callers of start() and stop(), where each one is suspended
    nMsgs,          \* how many messages send() accepted
    early,          \* the messages accepted while no connection was signalled
    nFrames,        \* how many inbound frames were read
    nAttempts,      \* how many connect attempts ended (counted in a scripted run)
    written,        \* what was written to a transport, in order: message, transport, writer
    lost,           \* the messages a send loop dequeued and did not write
    lsLast,         \* the last start() or stop() that returned, and what it left
    cbInstalled,    \* whether on_connected / on_error / on_close handlers were given
    timed,          \* whether time is counted (in units of reconnect_delay)
    nCalls,         \* how many times start() or stop() was called
    script,         \* -1, or the number of first connect attempts that fail
    \* ---- BinancePrivateWS ----
    pvStarted,      \* _is_started
    pvListener,     \* _listener: "None" or "listener"
    pvLsStarted,    \* _listener.is_started
    pvLoop,         \* the listener's _listen task: "none", "alive" or "dead"
    pvConn,         \* the open transport of the listener, 0 for none
    pvConnected,    \* _listener.is_connected
    pvStopping,     \* stop() is suspended in _listener.stop()
    pvEventers,     \* whether _wallet_eventer and _orders_eventer are AsyncEvents
    pvWallet,       \* the handler tokens of _wallet_eventer
    pvOrders,       \* the handler tokens of _orders_eventer
    pvNextTok,      \* how many uuid4 tokens were minted
    pvNextConn,     \* how many transports were opened
    pvSent,         \* what was handed to listener.send and accepted, with its transport
    pvFails,        \* failed logon acknowledgments dispatched on the open transport
    pvLast,         \* the last call or dispatch: what it saw and did
    pvCalls,        \* how many calls and dispatches were made (bounds the run)
    \* ---- BinanceWrapper ----
    wrStarted,      \* _is_started
    wrPublic,       \* _public_ws._is_started
    wrPrivate,      \* _private_ws._is_started
    wrWalletH,      \* how many handlers start() registered on the wallet event
    wrOrdersH,      \* how many handlers start() registered on the orders event
    wrWallet,       \* _wallet.balance: asset -> balance
    wrOrders,       \* _open_orders: order id -> status of the cached report
    wrLast,         \* the last call: what it saw and did
    wrCalls,        \* how many calls were made (bounds the run)
    wrHeld,         \* what the caller holds of the values wallet() and open_orders() returned
    \* ---- PrivateWSListener ----
    psOnConnected,  \* _on_connected_handler: the constructor's reconnect_delay argument
    psStopEvent,    \* _stop_event.is_set(); is_started is its negation
    psStartEvent,   \* _start_event.is_set(); is_connected
    psListenKey,    \* _listen_key: 0 for None, else the number of the key
    psTask,         \* _task, the connect loop: "none", "connecting", "reading", "done"
    psKeep,         \* _keepalive_task: "none", "waiting", "renewing", "done"
    psCall,         \* where the start() and the stop() in progress are suspended
    psRenewals,     \* how many renewals the keepalive loop has attempted
    psRenewed,      \* how the last renewal ended: "none", "ok", "HTTPError"
    psLast,         \* the last call that returned: what it saw and did
    psCalls         \* how many calls were made (bounds the run)

evVars == <<evHandlers, evPc, evSnap, evChild, evInvoked>>
lsVars == <<stopEvent, startEvent, lsTask, lsSendTask, lsWs, queue, lt, st, tr, callers,
            nMsgs, early, nFrames, nAttempts, written, lost, lsLast, cbInstalled, timed, nCalls, script>>
regVars == <<regStarted, regListener, regSubs, regHandlers, regNextTok, regSent,
             regLast, regCalls>>
pvVars == <<pvStarted, pvListener, pvLsStarted, pvLoop, pvConn, pvConnected, pvStopping,
            pvEventers, pvWallet, pvOrders, pvNextTok, pvNextConn, pvSent, pvFails,
            pvLast, pvCalls>>
wrVars == <<wrStarted, wrPublic, wrPrivate, wrWalletH, wrOrdersH, wrWallet, wrOrders,
            wrLast, wrCalls, wrHeld>>
psVars == <<psOnConnected, psStopEvent, psStartEvent, psListenKey, psTask, psKeep, psCall,
            psRenewals, psRenewed, psLast, psCalls>>

(***************************************************************************)
(* AsyncEvent (async_event.py)                                             *)
(***************************************************************************)
EvTokens == 1..MaxEvTokens
EvHandlerIds == {"h1", "h2"}
EvEmits == 1..MaxEmits
NoHandlers == [k \in {} |-> "h1"]

\* add, lines 23-25: a key already present keeps its handler
AddHandler(handlers, key, handler) ==
    IF key \in DOMAIN handlers
    THEN handlers
    ELSE [k \in DOMAIN handlers \cup {key} |->
             IF k = key THEN handler ELSE handlers[k]]

\* remove, lines 29-30: pop(key, None)
RemoveHandler(handlers, key) ==
    [k \in DOMAIN handlers \ {key} |-> handlers[k]]

\* is_empty, line 43
IsEmpty(handlers) == DOMAIN handlers = {}

EvInit ==
    /\ evHandlers = NoHandlers
    /\ evPc = [e \in EvEmits |-> "idle"]
    /\ evSnap = [e \in EvEmits |-> NoHandlers]
    /\ evChild = [e \in EvEmits |-> [k \in EvTokens |-> "none"]]
    /\ evInvoked = [e \in EvEmits |-> [k \in EvTokens |-> 0]]

EvAdd(k, h) ==
    /\ evHandlers' = AddHandler(evHandlers, k, h)
    /\ UNCHANGED <<regVars, pvVars, wrVars, psVars, lsVars, evPc, evSnap, evChild, evInvoked>>

EvRemove(k) ==
    /\ evHandlers' = RemoveHandler(evHandlers, k)
    /\ UNCHANGED <<regVars, pvVars, wrVars, psVars, lsVars, evPc, evSnap, evChild, evInvoked>>

\* A mutant of EmitTargets: emit iterates the live dict instead of a snapshot.
EmitTargetsLive(e) == evHandlers

\* The handlers emit call e delivers to: the snapshot of line 35.
EmitTargets(e) == evSnap[e]

\* emit, lines 34-38 up to the suspension in gather: the snapshot is taken
\* under the lock, the lock is released, and gather wraps one task around
\* each handler call.  gather() of nothing is already finished.
EvEmitStart(e) ==
    /\ evPc[e] = "idle"
    /\ evSnap' = [evSnap EXCEPT ![e] = evHandlers]
    /\ evPc' = [evPc EXCEPT ![e] = IF IsEmpty(evHandlers) THEN "returned" ELSE "gather"]
    /\ evChild' = [evChild EXCEPT ![e] =
                      [k \in EvTokens |-> IF k \in DOMAIN evHandlers THEN "pending" ELSE "none"]]
    /\ UNCHANGED <<regVars, pvVars, wrVars, psVars, lsVars, evHandlers, evInvoked>>

\* A mutant of SiblingsAfterRaise: the first failure cancels the other tasks
\* (what asyncio.TaskGroup does).
SiblingsCancelled(children, k) ==
    [j \in EvTokens |->
        IF j # k /\ children[j] \in {"pending", "running"} THEN "cancelled" ELSE children[j]]

\* gather(..., return_exceptions=False), line 37-39: the first exception goes
\* to the awaiting caller; the other tasks are not cancelled and keep running.
SiblingsAfterRaise(children, k) == children

\* The task of key k of emit e runs for the first time: the handler is entered,
\* and returns, raises or suspends.
EvChildStart(e, k, out) ==
    /\ evPc[e] # "idle"
    /\ k \in DOMAIN EmitTargets(e)
    /\ evChild[e][k] \in {"pending", "none"}
    /\ evInvoked' = [evInvoked EXCEPT ![e][k] = @ + 1]
    /\ evChild' = [evChild EXCEPT ![e] =
                      IF out = "raised"
                      THEN SiblingsAfterRaise([evChild[e] EXCEPT ![k] = out], k)
                      ELSE [evChild[e] EXCEPT ![k] = out]]
    /\ UNCHANGED <<regVars, pvVars, wrVars, psVars, lsVars, evHandlers, evPc, evSnap>>

\* A suspended handler finishes: it returns or raises.
EvChildFinish(e, k, out) ==
    /\ evChild[e][k] = "running"
    /\ evChild' = [evChild EXCEPT ![e] =
                      IF out = "raised"
                      THEN SiblingsAfterRaise([evChild[e] EXCEPT ![k] = out], k)
                      ELSE [evChild[e] EXCEPT ![k] = out]]
    /\ UNCHANGED <<regVars, pvVars, wrVars, psVars, lsVars, evHandlers, evPc, evSnap, evInvoked>>

\* gather finishes without an exception: emit returns.
EvEmitReturn(e) ==
    /\ evPc[e] = "gather"
    /\ \A k \in DOMAIN EmitTargets(e) : evChild[e][k] = "done"
    /\ evPc' = [evPc EXCEPT ![e] = "returned"]
    /\ UNCHANGED <<regVars, pvVars, wrVars, psVars, lsVars, evHandlers, evSnap, evChild, evInvoked>>

\* gather hands the first exception to emit's caller: emit raises.
EvEmitRaise(e) ==
    /\ evPc[e] = "gather"
    /\ \E k \in EvTokens : evChild[e][k] = "raised"
    /\ evPc' = [evPc EXCEPT ![e] = "raised"]
    /\ UNCHANGED <<regVars, pvVars, wrVars, psVars, lsVars, evHandlers, evSnap, evChild, evInvoked>>

EvNext ==
    \/ \E k \in EvTokens, h \in EvHandlerIds : EvAdd(k, h)
    \/ \E k \in EvTokens : EvRemove(k)
    \/ \E e \in EvEmits : EvEmitStart(e)
    \/ \E e \in EvEmits, k \in EvTokens, out \in {"done", "raised", "running"} :
           EvChildStart(e, k, out)
    \/ \E e \in EvEmits, k \in EvTokens, out \in {"done", "raised"} :
           EvChildFinish(e, k, out)
    \/ \E e \in EvEmits : EvEmitReturn(e)
    \/ \E e \in EvEmits : EvEmitRaise(e)

(***************************************************************************)
(* BinancePublicWS (public_ws.py), with WSKeyCreator and                   *)
(* PublicSubscriptionCreator (_inner_ws_schemas.py)                        *)
(***************************************************************************)
RegSymbols == {"BTCUSDT", "ETHUSDT"}
RegIntervals == {"1m", "5m"}
RegTokens == 1..MaxRegTokens

\* str.lower() on the symbols of the model
Lower(s) ==
    CASE s = "BTCUSDT" -> "btcusdt"
      [] s = "ETHUSDT" -> "ethusdt"
      [] OTHER -> s

\* WSKeyCreator.kline_key: KlineKey(symbol.lower(), time_interval, "kline")
KlineKey(symbol, interval) ==
    [symbol |-> Lower(symbol), time_interval |-> interval, channel |-> "kline"]

RegKeys == {KlineKey(s, i) : s \in RegSymbols, i \in RegIntervals}

\* PublicSubscriptionCreator.kline_subscription_msg / kline_unsubscription_msg:
\* the method and the one stream name "<symbol.lower()>@kline_<interval>",
\* kept here as the pair (symbol, interval) the name is built from.
SubscriptionMsg(key, isSubscription) ==
    [method |-> IF isSubscription THEN "SUBSCRIBE" ELSE "UNSUBSCRIBE",
     symbol |-> Lower(key.symbol), interval |-> key.time_interval]

\* The parameters AsyncWSListener.__init__ takes (ws_listener.py lines 15-23);
\* url and on_message have no default.
ListenerInitParams ==
    {"url", "on_message", "on_connected", "on_error", "on_close", "reconnect_delay"}
ListenerInitRequired == {"url", "on_message"}

\* The keyword arguments BinancePublicWS.start passes (public_ws.py lines 54-58).
PublicStartKwargs == {"url", "msg_handler", "reconnect_delay"}

\* Python's call binding: an unknown keyword or a missing required parameter
\* raises TypeError before __init__ runs.
CallBinds(kwargs) ==
    /\ kwargs \subseteq ListenerInitParams
    /\ ListenerInitRequired \subseteq kwargs

NoKey == [symbol |-> "", time_interval |-> "", channel |-> ""]
NoSubs == [k \in {} |-> {}]
NoTokens == [t \in {} |-> KlineKey("BTCUSDT", "1m")]

RegInit ==
    /\ regStarted = FALSE
    /\ regListener = "None"
    /\ regSubs = NoSubs
    /\ regHandlers = NoTokens
    /\ regNextTok = 0
    /\ regSent = <<>>
    /\ regLast = [op |-> "none", key |-> NoKey, tok |-> 0, res |-> "ok", enq |-> <<>>,
                  inv |-> 0, started |-> FALSE, hadEvent |-> FALSE, nHandlers |-> 0,
                  x |-> FALSE, closed |-> FALSE,
                  subsBefore |-> NoSubs, handlersBefore |-> NoTokens]
    /\ regCalls = 0

\* What a call saw and did: whether the registry was started, whether the
\* call's key had a fan-out event, how many handlers the key had, the
\* messages the call handed to the listener, the exception that left it
\* ("ok" for a normal return), how many handler invocations it made, the x
\* flag of a dispatched frame with the is_closed its handlers were given,
\* and the two maps as the call found them.
Outcome(op, key, tok, res, enq, inv) ==
    [op |-> op, key |-> key, tok |-> tok, res |-> res, enq |-> enq, inv |-> inv,
     started |-> regStarted,
     hadEvent |-> key \in DOMAIN regSubs,
     nHandlers |-> IF key \in DOMAIN regSubs THEN Cardinality(regSubs[key]) ELSE 0,
     x |-> FALSE, closed |-> FALSE,
     subsBefore |-> regSubs, handlersBefore |-> regHandlers]

\* start, lines 50-59.  The flag is set before the listener is built; the
\* constructor call binds no parameter named msg_handler, so it raises
\* TypeError and _listener keeps its value.
RegStart ==
    /\ regCalls < MaxRegCalls
    /\ regCalls' = regCalls + 1
    /\ UNCHANGED <<evVars, lsVars, pvVars, wrVars, psVars>>
    /\ IF regStarted
       THEN /\ regLast' = Outcome("start", NoKey, 0, "ok", <<>>, 0)
            /\ UNCHANGED <<regStarted, regListener>>
       ELSE /\ regStarted' = TRUE
            /\ IF CallBinds(PublicStartKwargs)
               THEN /\ regListener' = "listener"
                    /\ regLast' = Outcome("start", NoKey, 0, "ok", <<>>, 0)
               ELSE /\ regListener' = regListener
                    /\ regLast' = Outcome("start", NoKey, 0, "TypeError", <<>>, 0)
    /\ UNCHANGED <<regSubs, regHandlers, regNextTok, regSent>>

\* stop, lines 61-68.  self._listener.stop() on None raises AttributeError
\* before the maps are cleared; line 66 assigns _listenert, so _listener is
\* never reset.
RegStop ==
    /\ regCalls < MaxRegCalls
    /\ regCalls' = regCalls + 1
    /\ UNCHANGED <<evVars, lsVars, pvVars, wrVars, psVars>>
    /\ IF ~regStarted
       THEN /\ regLast' = Outcome("stop", NoKey, 0, "ok", <<>>, 0)
            /\ UNCHANGED <<regStarted, regSubs, regHandlers>>
       ELSE /\ regStarted' = FALSE
            /\ IF regListener = "None"
               THEN /\ regLast' = Outcome("stop", NoKey, 0, "AttributeError", <<>>, 0)
                    /\ UNCHANGED <<regSubs, regHandlers>>
               ELSE /\ regLast' = Outcome("stop", NoKey, 0, "ok", <<>>, 0)
                    /\ regSubs' = NoSubs
                    /\ regHandlers' = NoTokens
    /\ UNCHANGED <<regListener, regNextTok, regSent>>

\* self._listener.send(msg): AttributeError when _listener is None.
ListenerPresent == regListener # "None"

\* A mutant of RegSubscribe: the token is recorded in the token-to-key map
\* before the SUBSCRIBE is handed to the listener.
RegSubscribeRecordsFirst(symbol, interval) ==
    /\ regCalls < MaxRegCalls
    /\ regNextTok < MaxRegTokens
    /\ regCalls' = regCalls + 1
    /\ UNCHANGED <<evVars, lsVars, pvVars, wrVars, psVars>>
    /\ regNextTok' = regNextTok + 1
    /\ LET key == KlineKey(symbol, interval)
           tok == regNextTok + 1
       IN  /\ regHandlers' = [t \in DOMAIN regHandlers \cup {tok} |->
                                 IF t = tok THEN key ELSE regHandlers[t]]
           /\ regLast' = Outcome("subscribe", key, tok, "AttributeError", <<>>, 0)
    /\ UNCHANGED <<regStarted, regListener, regSubs, regSent>>

\* kline_subscribe and _subscribe, lines 117-122 and 170-186.  The token is
\* minted first; a key without a fan-out event hands SUBSCRIBE to the
\* listener and then creates the event.
RegSubscribe(symbol, interval) ==
    /\ regCalls < MaxRegCalls
    /\ regNextTok < MaxRegTokens
    /\ regCalls' = regCalls + 1
    /\ UNCHANGED <<evVars, lsVars, pvVars, wrVars, psVars>>
    /\ regNextTok' = regNextTok + 1
    /\ LET key == KlineKey(symbol, interval)
           tok == regNextTok + 1
           new == key \notin DOMAIN regSubs
           msg == SubscriptionMsg(key, TRUE)
           old == IF new THEN {} ELSE regSubs[key]
       IN  IF new /\ ~ListenerPresent
           THEN /\ regLast' = Outcome("subscribe", key, tok, "AttributeError", <<>>, 0)
                /\ UNCHANGED <<regSubs, regHandlers, regSent>>
           ELSE /\ regSent' = IF new THEN Append(regSent, msg) ELSE regSent
                /\ regSubs' = [k \in DOMAIN regSubs \cup {key} |->
                                  IF k = key THEN old \cup {tok} ELSE regSubs[k]]
                /\ regHandlers' = [t \in DOMAIN regHandlers \cup {tok} |->
                                      IF t = tok THEN key ELSE regHandlers[t]]
                /\ regLast' = Outcome("subscribe", key, tok, "ok",
                                      IF new THEN <<msg>> ELSE <<>>, 0)
    /\ UNCHANGED <<regStarted, regListener>>

\* kline_unsubscribe(handler_token=tok) and _unsubscribe, lines 148-149 and
\* 194-217.  The token is popped; an unknown token returns; the handler is
\* removed from its event; an empty event is popped and UNSUBSCRIBE sent.
RegUnsubscribeToken(tok) ==
    /\ regCalls < MaxRegCalls
    /\ regCalls' = regCalls + 1
    /\ UNCHANGED <<evVars, lsVars, pvVars, wrVars, psVars>>
    /\ regHandlers' = [t \in DOMAIN regHandlers \ {tok} |-> regHandlers[t]]
    /\ IF tok \notin DOMAIN regHandlers \/ regHandlers[tok] \notin DOMAIN regSubs
       THEN /\ regLast' = Outcome("unsubscribe_token", NoKey, tok, "ok", <<>>, 0)
            /\ UNCHANGED <<regSubs, regSent>>
       ELSE LET key == regHandlers[tok]
                left == regSubs[key] \ {tok}
                msg == SubscriptionMsg(key, FALSE)
            IN  IF left # {}
                THEN /\ regSubs' = [regSubs EXCEPT ![key] = left]
                     /\ regLast' = Outcome("unsubscribe_token", key, tok, "ok", <<>>, 0)
                     /\ UNCHANGED regSent
                ELSE /\ regSubs' = [k \in DOMAIN regSubs \ {key} |-> regSubs[k]]
                     /\ IF ListenerPresent
                        THEN /\ regSent' = Append(regSent, msg)
                             /\ regLast' = Outcome("unsubscribe_token", key, tok, "ok",
                                                   <<msg>>, 0)
                        ELSE /\ regLast' = Outcome("unsubscribe_token", key, tok,
                                                   "AttributeError", <<>>, 0)
                             /\ UNCHANGED regSent
    /\ UNCHANGED <<regStarted, regListener, regNextTok>>

\* _unsubscribe(subscr_key=key), lines 210-217.  Line 211 iterates the dict
\* itself, so each token string is unpacked into (k, v): ValueError as soon as
\* one token is registered.  Then the key is popped (KeyError when it is
\* absent) and UNSUBSCRIBE sent.
UnsubscribeKey(key, op) ==
    LET msg == SubscriptionMsg(key, FALSE)
    IN  IF DOMAIN regHandlers # {}
        THEN /\ regLast' = Outcome(op, key, 0, "ValueError", <<>>, 0)
             /\ UNCHANGED <<regSubs, regHandlers, regSent>>
        ELSE /\ regHandlers' = NoTokens
             /\ IF key \notin DOMAIN regSubs
                THEN /\ regLast' = Outcome(op, key, 0, "KeyError", <<>>, 0)
                     /\ UNCHANGED <<regSubs, regSent>>
                ELSE /\ regSubs' = [k \in DOMAIN regSubs \ {key} |-> regSubs[k]]
                     /\ IF ListenerPresent
                        THEN /\ regSent' = Append(regSent, msg)
                             /\ regLast' = Outcome(op, key, 0, "ok", <<msg>>, 0)
                        ELSE /\ regLast' = Outcome(op, key, 0, "AttributeError", <<>>, 0)
                             /\ UNCHANGED regSent

\* kline_unsubscribe(symbol=, time_interval=), lines 151-154
RegUnsubscribeKey(symbol, interval) ==
    /\ regCalls < MaxRegCalls
    /\ regCalls' = regCalls + 1
    /\ UNCHANGED <<evVars, lsVars, pvVars, wrVars, psVars>>
    /\ UnsubscribeKey(KlineKey(symbol, interval), "unsubscribe_key")
    /\ UNCHANGED <<regStarted, regListener, regNextTok>>

\* kline_unsubscribe(symbol=), lines 156-163: every key of the symbol, in
\* turn; the first exception ends the call.  With no key it does nothing.
RegUnsubscribeSymbol(symbol) ==
    /\ regCalls < MaxRegCalls
    /\ regCalls' = regCalls + 1
    /\ UNCHANGED <<evVars, lsVars, pvVars, wrVars, psVars>>
    /\ LET keys == {k \in DOMAIN regSubs : k.symbol = Lower(symbol) /\ k.channel = "kline"}
       IN  IF keys = {}
           THEN /\ regLast' = Outcome("unsubscribe_symbol", KlineKey(symbol, ""), 0, "ok",
                                      <<>>, 0)
                /\ UNCHANGED <<regSubs, regHandlers, regSent>>
           ELSE \E key \in keys : UnsubscribeKey(key, "unsubscribe_symbol")
    /\ UNCHANGED <<regStarted, regListener, regNextTok>>

\* kline_unsubscribe() with no argument, or only a time interval, lines 165-168
RegUnsubscribeNothing ==
    /\ regCalls < MaxRegCalls
    /\ regCalls' = regCalls + 1
    /\ UNCHANGED <<evVars, lsVars, pvVars, wrVars, psVars>>
    /\ regLast' = Outcome("unsubscribe_nothing", NoKey, 0, "ok", <<>>, 0)
    /\ UNCHANGED <<regStarted, regListener, regSubs, regHandlers, regNextTok, regSent>>

\* The inbound frames: an answer without "e", a kline event of a symbol and
\* an interval with its closed flag x, and an event of another type.
RegFrames ==
    {[e |-> "none", s |-> "", i |-> "", x |-> FALSE]}
    \cup {[e |-> "kline", s |-> s, i |-> i, x |-> x] :
            s \in RegSymbols, i \in RegIntervals, x \in BOOLEAN}
    \cup {[e |-> "trade", s |-> s, i |-> "", x |-> FALSE] : s \in RegSymbols}

\* _msg_preprocessing and _kline_preprocessor, lines 232-278: the callback the
\* listener's read loop awaits for each frame.  A kline frame indexes
\* self._subscriptions[subscr_key]: KeyError when the key has no event.
\* Otherwise the event's emit enters each registered handler once.
RegDispatch(frame) ==
    /\ regCalls < MaxRegCalls
    /\ regCalls' = regCalls + 1
    /\ UNCHANGED <<evVars, lsVars, pvVars, wrVars, psVars>>
    /\ LET key == KlineKey(frame.s, frame.i)
       IN  regLast' =
             IF frame.e # "kline"
             THEN Outcome("dispatch", NoKey, 0, "ok", <<>>, 0)
             ELSE IF key \notin DOMAIN regSubs
                  THEN [Outcome("dispatch", key, 0, "KeyError", <<>>, 0)
                           EXCEPT !.x = frame.x]
                  ELSE [Outcome("dispatch", key, 0, "ok", <<>>, Cardinality(regSubs[key]))
                           EXCEPT !.x = frame.x, !.closed = frame.x]
    /\ UNCHANGED <<regStarted, regListener, regSubs, regHandlers, regNextTok, regSent>>

RegNext ==
    \/ RegStart
    \/ RegStop
    \/ \E s \in RegSymbols, i \in RegIntervals : RegSubscribe(s, i)
    \/ \E t \in RegTokens : RegUnsubscribeToken(t)
    \/ \E s \in RegSymbols, i \in RegIntervals : RegUnsubscribeKey(s, i)
    \/ \E s \in RegSymbols : RegUnsubscribeSymbol(s)
    \/ RegUnsubscribeNothing
    \/ \E f \in RegFrames : RegDispatch(f)

(***************************************************************************)
(* AsyncWSListener (ws_listener.py)                                        *)
(*                                                                         *)
(* A listen task is suspended at one of                                    *)
(*   new          created by create_task, not run yet                      *)
(*   connecting   in websockets.connect (line 77)                          *)
(*   onConnected  in the on_connected handler (line 81)                    *)
(*   reading      in async for msg in ws (line 87)                         *)
(*   onMessage    in the on_message handler (line 88)                      *)
(*   aexit        leaving async with: the close of an open transport       *)
(*   onError      in the on_error handler (line 91)                        *)
(*   onClose      in the on_close handler (line 104)                       *)
(*   closeSend    in wait_for(self._send_task, 5.0) (line 141)             *)
(*   closeJoin    after the 5 s ran out and the send task was cancelled    *)
(*   closeAbort   cancelled while waiting for the send task                *)
(*   sleep        in asyncio.sleep(reconnect_delay) (line 116)             *)
(* or is done.  exc is the exception travelling through the finally block: *)
(* "none", "cancelled" (CancelledError) or "error" (any exception the      *)
(* except clause of line 90 does not name).                                *)
(***************************************************************************)
TaskIds == 1..MaxTasks
SendIds == 1..MaxConns
ConnIds == 1..MaxConns
\* The task of the application that calls start() and stop(), one call
\* after another.
Slots == {"app"}
None == 0

\* timeout=self._reconnect_delay * 6 (line 161), in units of reconnect_delay
StartBudget == 6
\* open_timeout=self._reconnect_delay (line 78) and sleep(self._reconnect_delay)
\* (line 116), in the same unit
DelayUnit == 1

NewLt == [pc |-> "none", ws |-> 0, exc |-> "none", need |-> FALSE, cancel |-> FALSE,
          wait |-> 0, rem |-> 0]
NewSt == [pc |-> "none", cancel |-> FALSE]
IdleCaller == [pc |-> "idle", op |-> "none", woken |-> FALSE, rem |-> 0, join |-> 0]
NoCall == [op |-> "none", res |-> "ok", sig |-> FALSE, stopped |-> TRUE, taskDone |-> TRUE,
           loops |-> 0, sends |-> 0]

\* is_started, line 50
IsStarted == ~stopEvent

LtAlive(t) == lt[t].pc \notin {"none", "done"}
StAlive(s) == st[s].pc \notin {"none", "done"}
OpenTransports == {c \in ConnIds : tr[c] = "open"}
AliveSendTasks == {s \in SendIds : StAlive(s)}
NextFree(ids, used) == CHOOSE i \in ids : i \notin used /\ \A j \in ids : j < i => j \in used

\* The event loop runs what is ready before it looks at the network and the
\* clock again: a task that was created, cancelled or woken (by the queue, by
\* the end of the task it awaits, by the start event) runs before the next
\* event from outside is served.  Calls of start(), stop() and send() come
\* from tasks of the program and are not ordered with the ready tasks.
ReadyStep ==
    \/ \E t \in TaskIds :
         \/ lt[t].pc = "new"
         \/ lt[t].cancel /\ lt[t].pc \notin {"none", "done", "closeAbort"}
         \/ lt[t].pc \in {"closeSend", "closeJoin", "closeAbort"} /\ st[lt[t].wait].pc = "done"
    \/ \E s \in SendIds :
         \/ st[s].pc = "ready"
         \/ st[s].cancel /\ st[s].pc \in {"get", "sending"}
         \/ st[s].pc = "get" /\ queue # <<>>
    \/ \E c \in Slots :
         \/ callers[c].pc = "startWait" /\ callers[c].woken
         \/ callers[c].pc = "xJoin" /\ lt[callers[c].join].pc = "done"

Quiet == ~ReadyStep

LsInitCommon ==
    /\ stopEvent = TRUE
    /\ startEvent = FALSE
    /\ lsTask = None
    /\ lsSendTask = None
    /\ lsWs = None
    /\ queue = <<>>
    /\ lt = [t \in TaskIds |-> NewLt]
    /\ st = [s \in SendIds |-> NewSt]
    /\ tr = [c \in ConnIds |-> "none"]
    /\ callers = [c \in Slots |-> IdleCaller]
    /\ nMsgs = 0
    /\ early = {}
    /\ nFrames = 0
    /\ nAttempts = 0
    /\ written = <<>>
    /\ lost = {}
    /\ lsLast = NoCall
    /\ nCalls = 0

\* The state after AsyncWSListener(...), lines 24-40, with or without the
\* optional handlers; the transport is free to fail or succeed at any time.
LsInit ==
    /\ LsInitCommon
    /\ cbInstalled \in BOOLEAN
    /\ timed = FALSE
    /\ script = -1

\* ------------------------------------------------------------ _listen ----

\* The part of the listener a step of a listen task reads and writes.
Cur(t) ==
    [pc |-> lt[t].pc, exc |-> lt[t].exc, need |-> lt[t].need, wait |-> lt[t].wait,
     rem |-> 0, lws |-> lt[t].ws, ws |-> lsWs, se |-> startEvent, q |-> queue]

\* while self.is_started, lines 74-77: the task returns, or opens the next
\* connection.
LoopHead(b) ==
    [b EXCEPT !.pc = IF stopEvent THEN "done" ELSE "connecting",
              !.need = FALSE, !.lws = 0, !.wait = 0,
              !.rem = IF timed /\ ~stopEvent THEN DelayUnit ELSE 0]

\* A mutant of AfterFinally: the next attempt follows without the delay.
AfterFinallyNoSleep(b) ==
    IF b.exc # "none" THEN [b EXCEPT !.pc = "done", !.lws = 0, !.wait = 0]
    ELSE LoopHead(b)

\* After the finally block, lines 113-116: a pending exception ends the task;
\* need_reconnect sleeps reconnect_delay; otherwise the loop goes on.
AfterFinally(b) ==
    IF b.exc # "none" THEN [b EXCEPT !.pc = "done", !.lws = 0, !.wait = 0, !.need = FALSE]
    ELSE IF b.need THEN [b EXCEPT !.pc = "sleep", !.lws = 0, !.wait = 0,
                                  !.rem = IF timed THEN DelayUnit ELSE 0]
    ELSE LoopHead(b)

\* The finally block after on_close, lines 106-111: _ws and the start event
\* are cleared; a send task that is not done gets the None sentinel and is
\* awaited (_close_send_loop, lines 138-141).
FinallyRest(b) ==
    LET b1 == [b EXCEPT !.ws = None, !.se = FALSE]
    IN  IF lsSendTask # None /\ st[lsSendTask].pc # "done"
        THEN [b1 EXCEPT !.pc = "closeSend", !.q = Append(b.q, None), !.wait = lsSendTask]
        ELSE AfterFinally(b1)

\* The finally block, lines 100-104: on_close is awaited only when the start
\* event is set; without a handler the await does not suspend.
Finally(b) ==
    IF b.se /\ cbInstalled THEN [b EXCEPT !.pc = "onClose"] ELSE FinallyRest(b)

\* except (ConnectionClosed, OSError), lines 90-98
Except(b) ==
    IF cbInstalled THEN [b EXCEPT !.pc = "onError"] ELSE Finally([b EXCEPT !.need = TRUE])

\* One step of listen task t to b: its own record and the listener's fields.
LtSet(t, b) ==
    /\ lt' = [lt EXCEPT ![t] = [pc |-> b.pc, ws |-> b.lws, exc |-> b.exc, need |-> b.need,
                                cancel |-> FALSE, wait |-> b.wait, rem |-> b.rem]]
    /\ lsWs' = b.ws
    /\ startEvent' = b.se
    /\ queue' = b.q

\* Leaving async with on the way out of the try block: an open transport is
\* closed, which suspends; a closed one is left at once.
LeaveWith(t, b, after) ==
    IF lt[t].ws # 0 /\ tr[lt[t].ws] = "open"
    THEN /\ tr' = [tr EXCEPT ![lt[t].ws] = "closed"]
         /\ LtSet(t, [b EXCEPT !.pc = "aexit"])
    ELSE /\ tr' = tr
         /\ LtSet(t, after)

LsFrame == <<stopEvent, lsTask, lsSendTask, st, callers, nMsgs, early, nFrames, nAttempts, written,
             lost, lsLast, cbInstalled, timed, script, evVars, regVars, pvVars, wrVars, psVars, nCalls>>

\* The first step of a listen task.  A task cancelled before it ran never runs.
LtRun(t) ==
    /\ lt[t].pc = "new"
    /\ LtSet(t, IF lt[t].cancel
                THEN [Cur(t) EXCEPT !.pc = "done", !.exc = "cancelled"]
                ELSE LoopHead(Cur(t)))
    /\ UNCHANGED <<tr, LsFrame>>

\* The deadline of start() was set before any timer of the task it created:
\* when both are due, the deadline is served first.
TimeoutDue ==
    timed /\ \E c \in Slots : callers[c].pc = "startWait" /\ ~callers[c].woken
                                /\ callers[c].rem = 0

ScriptAllows(ok) ==
    \/ script = -1
    \/ ok /\ nAttempts >= script
    \/ ~ok /\ nAttempts < script

CountAttempt == nAttempts' = IF script = -1 THEN nAttempts ELSE nAttempts + 1

\* Lines 83-87 after on_connected returned: the start event is set (every
\* start() waiting on it is woken), the send task is created, and the task
\* suspends in async for.
Connected(t, b) ==
    LET s == NextFree(SendIds, {i \in SendIds : st[i].pc # "none"})
    IN  /\ LtSet(t, [b EXCEPT !.pc = "reading", !.se = TRUE])
        /\ st' = [st EXCEPT ![s] = [pc |-> "ready", cancel |-> FALSE]]
        /\ lsSendTask' = s
        /\ callers' = [c \in Slots |->
                          IF callers[c].pc = "startWait"
                          THEN [callers[c] EXCEPT !.woken = TRUE] ELSE callers[c]]

\* websockets.connect succeeds, lines 77-81: self._ws is set and on_connected
\* awaited.
LtConnectOk(t) ==
    /\ Quiet
    /\ lt[t].pc = "connecting" /\ ~lt[t].cancel
    /\ ~TimeoutDue
    /\ ScriptAllows(TRUE)
    /\ \E c \in ConnIds :
         /\ tr[c] = "none" /\ \A d \in ConnIds : d < c => tr[d] # "none"
         /\ tr' = [tr EXCEPT ![c] = "open"]
         /\ LET b == [Cur(t) EXCEPT !.lws = c, !.ws = c]
            IN  IF cbInstalled
                THEN /\ LtSet(t, [b EXCEPT !.pc = "onConnected"])
                     /\ UNCHANGED <<st, lsSendTask, callers>>
                ELSE Connected(t, b)
    /\ CountAttempt
    /\ UNCHANGED <<stopEvent, lsTask, nMsgs, early, nFrames, written, lost, lsLast, cbInstalled,
                   timed, script, evVars, regVars, pvVars, wrVars, psVars, nCalls>>

\* The on_connected handler returns.
LtOnConnectedDone(t) ==
    /\ Quiet
    /\ lt[t].pc = "onConnected" /\ ~lt[t].cancel
    /\ Connected(t, Cur(t))
    /\ UNCHANGED <<stopEvent, lsTask, tr, nMsgs, early, nFrames, nAttempts, written, lost, lsLast,
                   cbInstalled, timed, script, evVars, regVars, pvVars, wrVars, psVars, nCalls>>

\* websockets.connect raises OSError (refused, unreachable, or TimeoutError
\* after open_timeout).
LtConnectFail(t) ==
    /\ Quiet
    /\ lt[t].pc = "connecting" /\ ~lt[t].cancel
    /\ ~TimeoutDue
    /\ ScriptAllows(FALSE)
    /\ LtSet(t, Except(Cur(t)))
    /\ CountAttempt
    /\ UNCHANGED <<stopEvent, lsTask, lsSendTask, st, tr, callers, nMsgs, early, nFrames, written,
                   lost, lsLast, cbInstalled, timed, script, evVars, regVars, pvVars, wrVars, psVars, nCalls>>

\* websockets.connect raises InvalidHandshake (the server rejects the opening
\* handshake) or InvalidURI: a WebSocketException that is neither
\* ConnectionClosed nor OSError, so line 90 does not catch it.
LtConnectReject(t) ==
    /\ Quiet
    /\ lt[t].pc = "connecting" /\ ~lt[t].cancel
    /\ script = -1
    /\ LtSet(t, Finally([Cur(t) EXCEPT !.exc = "error"]))
    /\ UNCHANGED <<tr, LsFrame>>

\* A frame arrives: on_message is awaited, line 88.
LtFrame(t) ==
    /\ Quiet
    /\ lt[t].pc = "reading" /\ ~lt[t].cancel
    /\ tr[lt[t].ws] = "open"
    /\ nFrames < MaxFrames
    /\ nFrames' = nFrames + 1
    /\ LtSet(t, [Cur(t) EXCEPT !.pc = "onMessage"])
    /\ UNCHANGED <<stopEvent, lsTask, lsSendTask, st, tr, callers, nMsgs, early, nAttempts, written,
                   lost, lsLast, cbInstalled, timed, script, evVars, regVars, pvVars, wrVars, psVars, nCalls>>

\* The on_message handler returns, or raises: its exception leaves the try
\* block through async with and the finally block.
LtOnMessageDone(t, ok) ==
    /\ Quiet
    /\ lt[t].pc = "onMessage" /\ ~lt[t].cancel
    /\ IF ok
       THEN /\ LtSet(t, [Cur(t) EXCEPT !.pc = "reading"])
            /\ tr' = tr
       ELSE LeaveWith(t, [Cur(t) EXCEPT !.exc = "error"],
                      Finally([Cur(t) EXCEPT !.exc = "error"]))
    /\ UNCHANGED LsFrame

\* The connection ends while the task reads.  The peer closes it, an I/O
\* error breaks it, or stop() closed it: async for ends (a normal closure) or
\* raises ConnectionClosed.
LtReadEnd(t, normal) ==
    /\ Quiet
    /\ lt[t].pc = "reading" /\ ~lt[t].cancel
    /\ script = -1
    /\ tr' = [tr EXCEPT ![lt[t].ws] = "closed"]
    /\ LtSet(t, IF normal THEN Finally(Cur(t)) ELSE Except(Cur(t)))
    /\ UNCHANGED LsFrame

\* The close of the transport on the way out of async with is over.
LtAexitDone(t) ==
    /\ Quiet
    /\ lt[t].pc = "aexit" /\ ~lt[t].cancel
    /\ LtSet(t, Finally(Cur(t)))
    /\ UNCHANGED <<tr, LsFrame>>

\* The on_error handler returns: need_reconnect = True, then the finally block.
LtOnErrorDone(t) ==
    /\ Quiet
    /\ lt[t].pc = "onError" /\ ~lt[t].cancel
    /\ LtSet(t, Finally([Cur(t) EXCEPT !.need = TRUE]))
    /\ UNCHANGED <<tr, LsFrame>>

\* The on_close handler returns.
LtOnCloseDone(t) ==
    /\ Quiet
    /\ lt[t].pc = "onClose" /\ ~lt[t].cancel
    /\ LtSet(t, FinallyRest(Cur(t)))
    /\ UNCHANGED <<tr, LsFrame>>

\* wait_for(self._send_task, 5.0) returns: the send task is done.
LtCloseSendDone(t) ==
    /\ lt[t].pc \in {"closeSend", "closeJoin"} /\ ~lt[t].cancel
    /\ st[lt[t].wait].pc = "done"
    /\ LtSet(t, AfterFinally(Cur(t)))
    /\ UNCHANGED <<tr, LsFrame>>

\* The 5 s run out, lines 142-144: the send task is cancelled and awaited.
LtCloseSendTimeout(t) ==
    /\ Quiet
    /\ lt[t].pc = "closeSend" /\ ~lt[t].cancel
    /\ st[lt[t].wait].pc # "done"
    /\ st' = [st EXCEPT ![lt[t].wait].cancel = TRUE]
    /\ LtSet(t, [Cur(t) EXCEPT !.pc = "closeJoin"])
    /\ UNCHANGED <<stopEvent, lsTask, lsSendTask, tr, callers, nMsgs, early, nFrames, nAttempts,
                   written, lost, lsLast, cbInstalled, timed, script, evVars, regVars, pvVars, wrVars, psVars, nCalls>>

\* asyncio.sleep(reconnect_delay) is over, line 116.
LtSleepDone(t) ==
    /\ Quiet
    /\ lt[t].pc = "sleep" /\ ~lt[t].cancel
    /\ ~TimeoutDue
    /\ timed => lt[t].rem = 0
    /\ LtSet(t, LoopHead(Cur(t)))
    /\ UNCHANGED <<tr, LsFrame>>

\* task.cancel() reaches the task where it is suspended.  In the try block
\* CancelledError leaves through async with and the whole finally block; in
\* the except clause through the finally block; inside the finally block it
\* leaves at once, and the rest of the block does not run; in the sleep it
\* ends the task.  wait_for and gather pass the cancellation on to the send
\* task they await and return when it is done.
LtCancelled(t) ==
    /\ lt[t].cancel
    /\ lt[t].pc \notin {"none", "new", "done", "closeAbort"}
    /\ LET b == [Cur(t) EXCEPT !.exc = "cancelled"]
           dead == [b EXCEPT !.pc = "done", !.lws = 0, !.wait = 0, !.need = FALSE]
       IN  CASE lt[t].pc \in {"connecting", "onError", "aexit"} ->
                  /\ LtSet(t, Finally(b))
                  /\ UNCHANGED <<tr, st>>
             [] lt[t].pc \in {"onConnected", "reading", "onMessage"} ->
                  /\ LeaveWith(t, b, Finally(b))
                  /\ UNCHANGED st
             [] lt[t].pc \in {"onClose", "sleep"} ->
                  /\ LtSet(t, dead)
                  /\ UNCHANGED <<tr, st>>
             [] lt[t].pc \in {"closeSend", "closeJoin"} ->
                  /\ IF st[lt[t].wait].pc = "done"
                     THEN /\ LtSet(t, dead)
                          /\ st' = st
                     ELSE /\ LtSet(t, [b EXCEPT !.pc = "closeAbort"])
                          /\ st' = [st EXCEPT ![lt[t].wait].cancel = TRUE]
                  /\ tr' = tr
    /\ UNCHANGED <<stopEvent, lsTask, lsSendTask, callers, nMsgs, early, nFrames, nAttempts,
                   written, lost, lsLast, cbInstalled, timed, script, evVars, regVars, pvVars, wrVars, psVars, nCalls>>

\* The send task a cancelled wait_for or gather waited for is done: the
\* CancelledError leaves the finally block.
LtAbortDone(t) ==
    /\ lt[t].pc = "closeAbort"
    /\ st[lt[t].wait].pc = "done"
    /\ LtSet(t, [Cur(t) EXCEPT !.pc = "done", !.exc = "cancelled", !.lws = 0, !.wait = 0,
                               !.need = FALSE])
    /\ UNCHANGED <<tr, LsFrame>>

\* --------------------------------------------------------- _send_loop ----

RECURSIVE SendLoop(_), SendGot(_)

\* while self._ws is not None and self.is_started, line 120, and the
\* queue.get() of line 122, which suspends only on an empty queue.
SendLoop(b) ==
    IF lsWs = None \/ stopEvent THEN [b EXCEPT !.pc = "done"]
    ELSE IF b.q = <<>> THEN [b EXCEPT !.pc = "get"]
    ELSE SendGot(b)

\* Lines 124-131 for the message at the head of the queue: the sentinel ends
\* the task; a message is written to self._ws when the listener is connected
\* (and the write may suspend), is logged as failed when the transport is
\* closed, and is dropped otherwise.
SendGot(b) ==
    LET msg == Head(b.q)
        b1 == [b EXCEPT !.q = Tail(b.q)]
    IN  IF msg = None THEN [b1 EXCEPT !.pc = "done"]
        ELSE IF lsWs # None /\ startEvent /\ tr[lsWs] = "open"
        THEN [b1 EXCEPT !.pc = "sending",
                        !.w = Append(b.w, [msg |-> msg, ws |-> lsWs, by |-> b.me])]
        ELSE SendLoop([b1 EXCEPT !.l = b.l \cup {msg}])

SendCur(s) == [pc |-> st[s].pc, me |-> s, q |-> queue, w |-> written, l |-> lost]

StSet(s, b) ==
    /\ st' = [st EXCEPT ![s] = [pc |-> b.pc, cancel |-> FALSE]]
    /\ queue' = b.q
    /\ written' = b.w
    /\ lost' = b.l

StFrame == <<stopEvent, startEvent, lsTask, lsSendTask, lsWs, lt, tr, callers, nMsgs, early, nFrames,
             nAttempts, lsLast, cbInstalled, timed, script, evVars, regVars, pvVars, wrVars, psVars, nCalls>>

\* The send task runs: for the first time, or after a write.
StRun(s) ==
    /\ st[s].pc \in {"ready", "sending"} /\ ~st[s].cancel
    /\ StSet(s, SendLoop(SendCur(s)))
    /\ UNCHANGED StFrame

\* The queue.get() the send task is suspended in returns a message.
StGet(s) ==
    /\ st[s].pc = "get" /\ ~st[s].cancel
    /\ queue # <<>>
    /\ StSet(s, SendGot(SendCur(s)))
    /\ UNCHANGED StFrame

\* CancelledError reaches the send task, lines 133-134: break.  A task
\* cancelled before it ran never runs.
StCancelled(s) ==
    /\ st[s].cancel
    /\ st[s].pc \in {"ready", "get", "sending"}
    /\ st' = [st EXCEPT ![s] = [pc |-> "done", cancel |-> FALSE]]
    /\ UNCHANGED <<queue, written, lost, StFrame>>

\* ------------------------------------------------- start, stop, send ----

Returned(c, op, res, stopped, tasks) ==
    /\ lsLast' = [op |-> op, res |-> res, sig |-> callers[c].woken,
                  stopped |-> stopped,
                  taskDone |-> (lsTask = None \/ tasks[lsTask].pc = "done"),
                  loops |-> Cardinality({t \in TaskIds : tasks[t].pc \notin {"none", "done"}}),
                  sends |-> Cardinality(AliveSendTasks)]
    /\ callers' = [callers EXCEPT ![c] = IdleCaller]

\* Lines 181-184: a task that is not done is cancelled and awaited.
StopJoin(c, op) ==
    IF lsTask # None /\ lt[lsTask].pc # "done"
    THEN /\ lt' = [lt EXCEPT ![lsTask].cancel = TRUE]
         /\ callers' = [callers EXCEPT ![c] = [IdleCaller EXCEPT !.pc = "xJoin", !.op = op,
                                                                  !.join = lsTask]]
         /\ lsLast' = lsLast
    ELSE /\ lt' = lt
         /\ Returned(c, op, IF op = "start" THEN "ConnectionError" ELSE "ok", TRUE, lt)

\* stop(), lines 170-184, up to its first suspension.  op is "stop", or
\* "start" for the stop() of line 164, after which start() raises.
StopBody(c, op) ==
    IF ~IsStarted
    THEN /\ UNCHANGED <<stopEvent, startEvent, tr, lt>>
         /\ Returned(c, op, IF op = "start" THEN "ConnectionError" ELSE "ok", stopEvent, lt)
    ELSE /\ stopEvent' = TRUE
         /\ startEvent' = FALSE
         /\ IF lsWs # None /\ tr[lsWs] = "open"
            THEN /\ tr' = [tr EXCEPT ![lsWs] = "closed"]
                 /\ callers' = [callers EXCEPT ![c] = [IdleCaller EXCEPT !.pc = "xClose",
                                                                          !.op = op]]
                 /\ UNCHANGED <<lt, lsLast>>
            ELSE /\ tr' = tr
                 /\ StopJoin(c, op)

CallFrame == <<lsSendTask, lsWs, queue, st, nMsgs, early, nFrames, nAttempts, written, lost,
               cbInstalled, timed, script, evVars, regVars, pvVars, wrVars, psVars>>

\* The caller is free to make its next call.
CanCall(c) ==
    /\ callers[c].pc = "idle"
    /\ nCalls < MaxCalls
    /\ timed => nCalls = 0

\* stop() is called.
Stop(c) ==
    /\ CanCall(c)
    /\ nCalls' = nCalls + 1
    /\ StopBody(c, "stop")
    /\ UNCHANGED <<lsTask, CallFrame>>

\* await self._ws.close() is over, line 178.
StopClosed(c) ==
    /\ Quiet
    /\ callers[c].pc = "xClose"
    /\ StopJoin(c, callers[c].op)
    /\ UNCHANGED <<stopEvent, startEvent, tr, lsTask, nCalls, CallFrame>>

\* gather(self._task) is over, line 184.
StopJoined(c) ==
    /\ callers[c].pc = "xJoin"
    /\ lt[callers[c].join].pc = "done"
    /\ Returned(c, callers[c].op, IF callers[c].op = "start" THEN "ConnectionError" ELSE "ok",
                stopEvent, lt)
    /\ UNCHANGED <<stopEvent, startEvent, tr, lt, lsTask, nCalls, CallFrame>>

\* A mutant of StartReturns: start() returns without waiting for the connection.
StartReturnsAtOnce(c) ==
    /\ callers[c].pc = "startWait"
    /\ Returned(c, "start", "ok", stopEvent, lt)
    /\ UNCHANGED <<stopEvent, startEvent, tr, lt, lsTask, nCalls, CallFrame>>

\* The wait of lines 156-162 is over because the start event was set.
StartReturns(c) ==
    /\ callers[c].pc = "startWait"
    /\ callers[c].woken
    /\ Returned(c, "start", "ok", stopEvent, lt)
    /\ UNCHANGED <<stopEvent, startEvent, tr, lt, lsTask, nCalls, CallFrame>>

\* start() is called, lines 146-155.  On a started listener it returns at once.
Start(c) ==
    /\ CanCall(c)
    /\ nCalls' = nCalls + 1
    /\ IF IsStarted
       THEN /\ Returned(c, "startAgain", "ok", stopEvent, lt)
            /\ UNCHANGED <<stopEvent, startEvent, lt, lsTask>>
       ELSE \E t \in TaskIds :
              /\ lt[t].pc = "none" /\ \A u \in TaskIds : u < t => lt[u].pc # "none"
              /\ startEvent' = FALSE
              /\ stopEvent' = FALSE
              /\ lt' = [lt EXCEPT ![t] = [NewLt EXCEPT !.pc = "new"]]
              /\ lsTask' = t
              /\ callers' = [callers EXCEPT ![c] =
                               [IdleCaller EXCEPT !.pc = "startWait", !.op = "start",
                                                  !.rem = IF timed THEN StartBudget ELSE 0]]
              /\ lsLast' = lsLast
    /\ UNCHANGED <<tr, CallFrame>>

\* The wait ran out of time, lines 163-168: stop(), then ConnectionError.
StartTimeout(c) ==
    /\ Quiet
    /\ callers[c].pc = "startWait"
    /\ ~callers[c].woken
    /\ timed => callers[c].rem = 0
    /\ StopBody(c, "start")
    /\ UNCHANGED <<lsTask, nCalls, CallFrame>>

\* send(msg), lines 186-189: queued only on a started listener.
Send ==
    /\ nMsgs < MaxMsgs
    /\ nMsgs' = nMsgs + 1
    /\ queue' = IF IsStarted THEN Append(queue, nMsgs + 1) ELSE queue
    /\ early' = IF IsStarted /\ ~startEvent THEN early \cup {nMsgs + 1} ELSE early
    /\ UNCHANGED <<stopEvent, startEvent, lsTask, lsSendTask, lsWs, lt, st, tr, callers,
                   nFrames, nAttempts, written, lost, lsLast, cbInstalled, timed, script, evVars, regVars, pvVars, wrVars, psVars, nCalls>>

\* --------------------------------------------------------------- time ----

Timers == {lt[t].rem : t \in {u \in TaskIds : lt[u].pc \in {"connecting", "sleep"}}}
              \cup {callers[c].rem : c \in {d \in Slots : callers[d].pc = "startWait"
                                                          /\ ~callers[d].woken}}

\* One reconnect_delay passes.  No timer that is due is passed over.
Tick ==
    /\ Quiet
    /\ timed
    /\ Timers # {} /\ 0 \notin Timers
    /\ lt' = [t \in TaskIds |->
                 IF lt[t].pc \in {"connecting", "sleep"}
                 THEN [lt[t] EXCEPT !.rem = @ - 1] ELSE lt[t]]
    /\ callers' = [c \in Slots |->
                      IF callers[c].pc = "startWait" /\ callers[c].rem > 0
                      THEN [callers[c] EXCEPT !.rem = @ - 1] ELSE callers[c]]
    /\ UNCHANGED <<stopEvent, startEvent, lsTask, lsSendTask, lsWs, queue, st, tr, nMsgs, early,
                   nFrames, nAttempts, written, lost, lsLast, cbInstalled, timed, script, evVars, regVars, pvVars, wrVars, psVars, nCalls>>

(***************************************************************************)
(* BinancePrivateWS (private_ws.py)                                        *)
(*                                                                         *)
(* The listener is seen from the private client: whether it is started,    *)
(* whether its _listen task is alive, which transport is open and whether  *)
(* a connection is signalled.  The calls on the client are made one after  *)
(* another; frames are dispatched by the listener's read loop, also while  *)
(* stop() is suspended in the close of the transport.                      *)
(***************************************************************************)
PvConnIds == 1..MaxPvConns
PvTokens == 1..MaxPvTokens

\* The keyword arguments BinancePrivateWS.start passes (private_ws.py lines 41-46).
PrivateStartKwargs == {"url", "on_message", "reconnect_delay", "on_connected"}

Logon == "session.logon"
UserData == "userDataStream.subscribe"

\* The keys of an executionReport event as the exchange writes it and the
\* keys OrderReport is declared with (binance/schemas.py lines 122-140,
\* common/schemas.py lines 145-165).
ExecutionReportWire == {"e", "E", "s", "c", "S", "o", "f", "q", "p", "x", "X", "i", "T"}
ExecutionReportNamed == {"e", "symbol", "orderId", "clientOrderId", "transactTime", "status"}

\* The required fields of OrderReport, each with the keys it is read from:
\* its alias or validation aliases and, with validate_by_name, its name.
OrderReportRequired ==
    {{"symbol"}, {"orderId", "order_id"}, {"clientOrderId", "client_order_id"},
     {"transactTime", "time", "transaction_time"}}

\* The keys of an item of event["B"] as the exchange writes it and the keys
\* BalanceForAsset is declared with (common/schemas.py lines 69-72).
BalanceWire == {"a", "f", "l"}
BalanceNamed == {"asset", "free", "locked"}
BalanceRequired == {{"asset"}, {"free"}, {"locked"}}

\* pydantic's model_validate: every required field finds one of its keys,
\* else ValidationError; keys it does not know are ignored.
Validates(required, keys) == \A g \in required : g \cap keys # {}

PvEventKinds == {"executionReport", "outboundAccountPosition", "balanceUpdate"}

\* The inbound frames: an event of one of three types with the keys of its
\* payload, an acknowledgment with its id and status, a frame with neither.
PvFrames ==
    {[kind |-> "executionReport", status |-> 0, fields |-> k] :
        k \in {ExecutionReportWire, ExecutionReportNamed}}
    \cup {[kind |-> "outboundAccountPosition", status |-> 0, fields |-> k] :
        k \in {BalanceWire, BalanceNamed}}
    \cup {[kind |-> "balanceUpdate", status |-> 0, fields |-> {"e", "a", "d"}]}
    \cup {[kind |-> i, status |-> s, fields |-> {}] :
        i \in {"logon_id", "user_data_id", "other_id"}, s \in {200, 400}}
    \cup {[kind |-> "none", status |-> 0, fields |-> {}]}

\* lines 147-159: whether the decode of an event's payload succeeds; an
\* event of another type is not decoded.
Decodes(f) ==
    CASE f.kind = "executionReport" -> Validates(OrderReportRequired, f.fields)
      [] f.kind = "outboundAccountPosition" -> Validates(BalanceRequired, f.fields)
      [] OTHER -> TRUE

AckMessagesLogonAgain(f) ==
    CASE f.kind = "logon_id" /\ f.status = 200 -> <<Logon>>
      [] f.kind = "logon_id" /\ f.status # 200 /\ pvConnected -> <<Logon>>
      [] f.kind = "user_data_id" /\ f.status # 200 /\ pvConnected -> <<UserData>>
      [] OTHER -> <<>>

\* lines 162-189: the control message an acknowledgment makes the client
\* hand to listener.send.
AckMessages(f) ==
    CASE f.kind = "logon_id" /\ f.status = 200 -> <<UserData>>
      [] f.kind = "logon_id" /\ f.status # 200 /\ pvConnected -> <<Logon>>
      [] f.kind = "user_data_id" /\ f.status # 200 /\ pvConnected -> <<UserData>>
      [] OTHER -> <<>>

\* AsyncWSListener.send (ws_listener.py lines 186-189): queued only while
\* the listener is started.
Accepted(msgs) == IF pvLsStarted THEN msgs ELSE <<>>

OnTransport(msgs, conn) == [i \in 1..Len(msgs) |-> [conn |-> conn, msg |-> msgs[i]]]

PvSeen(op, kind, status, fields, res, enq, invW, invO, fails) ==
    [op |-> op, kind |-> kind, status |-> status, fields |-> fields, res |-> res,
     enq |-> enq, invW |-> invW, invO |-> invO, fails |-> fails,
     conn |-> pvConn, started |-> pvLsStarted, connected |-> pvConnected,
     clientStarted |-> pvStarted, wallet |-> pvWallet, orders |-> pvOrders, tok |-> 0]

PvCall(op, res) == PvSeen(op, "", 0, {}, res, <<>>, {}, {}, pvFails)

PvInit ==
    /\ pvStarted = FALSE
    /\ pvListener = "None"
    /\ pvLsStarted = FALSE
    /\ pvLoop = "none"
    /\ pvConn = 0
    /\ pvConnected = FALSE
    /\ pvStopping = FALSE
    /\ pvEventers = FALSE
    /\ pvWallet = {}
    /\ pvOrders = {}
    /\ pvNextTok = 0
    /\ pvNextConn = 0
    /\ pvSent = <<>>
    /\ pvFails = 0
    /\ pvLast = [op |-> "none", kind |-> "", status |-> 0, fields |-> {}, res |-> "ok",
                 enq |-> <<>>, invW |-> {}, invO |-> {}, fails |-> 0,
                 conn |-> 0, started |-> FALSE, connected |-> FALSE,
                 clientStarted |-> FALSE, wallet |-> {}, orders |-> {}, tok |-> 0]
    /\ pvCalls = 0

PvConnectedSilent(op) ==
    /\ pvNextConn' = pvNextConn + 1
    /\ pvConn' = pvNextConn + 1
    /\ pvConnected' = TRUE
    /\ pvFails' = 0
    /\ pvSent' = pvSent
    /\ pvLast' = [PvSeen(op, "", 0, {}, "ok", <<>>, {}, {}, 0)
                     EXCEPT !.conn = pvNextConn + 1]

\* ws_listener.py lines 77-86 with private_ws.py lines 120-135: a connect
\* succeeded; on_connected hands session.logon to listener.send while the
\* listener is started, then the connection is signalled.
PvConnected(op) ==
    /\ pvNextConn' = pvNextConn + 1
    /\ pvConn' = pvNextConn + 1
    /\ pvConnected' = TRUE
    /\ pvFails' = 0
    /\ pvSent' = pvSent \o OnTransport(<<Logon>>, pvNextConn + 1)
    /\ pvLast' = [PvSeen(op, "", 0, {}, "ok", <<Logon>>, {}, {}, 0)
                     EXCEPT !.conn = pvNextConn + 1]

\* start, lines 37-51.  The listener is built with the parameters it has,
\* the two events are created and listener.start() awaited: it returns
\* with a connection signalled or raises ConnectionError after stopping the
\* listener; _is_started stays set either way.
PvStart ==
    /\ pvCalls < MaxPvCalls /\ ~pvStopping
    /\ pvCalls' = pvCalls + 1
    /\ UNCHANGED <<evVars, regVars, lsVars, wrVars, psVars>>
    /\ IF pvStarted
       THEN /\ pvLast' = PvCall("startAgain", "ok")
            /\ UNCHANGED <<pvStarted, pvListener, pvLsStarted, pvLoop, pvConn, pvConnected,
                           pvEventers, pvWallet, pvOrders, pvNextConn, pvSent, pvFails>>
       ELSE /\ pvStarted' = TRUE
            /\ IF ~CallBinds(PrivateStartKwargs)
               THEN /\ pvLast' = PvCall("start", "TypeError")
                    /\ UNCHANGED <<pvListener, pvLsStarted, pvLoop, pvConn, pvConnected,
                                   pvEventers, pvWallet, pvOrders, pvNextConn, pvSent,
                                   pvFails>>
               ELSE /\ pvListener' = "listener"
                    /\ pvEventers' = TRUE
                    /\ pvWallet' = {}
                    /\ pvOrders' = {}
                    /\ \/ /\ pvNextConn < MaxPvConns
                          /\ pvLsStarted' = TRUE
                          /\ pvLoop' = "alive"
                          /\ PvConnected("start")
                       \/ /\ pvLsStarted' = FALSE
                          /\ pvLoop' = "none"
                          /\ pvLast' = PvCall("start", "ConnectionError")
                          /\ UNCHANGED <<pvConn, pvConnected, pvNextConn, pvSent, pvFails>>
    /\ UNCHANGED <<pvStopping, pvNextTok>>

\* ws_listener.py lines 87-111: the connection ended (closed by the peer or
\* lost); the listener clears its signal and goes on to reconnect.
PvDrop ==
    /\ pvCalls < MaxPvCalls /\ ~pvStopping
    /\ pvConn # 0 /\ pvLoop = "alive"
    /\ pvCalls' = pvCalls + 1
    /\ UNCHANGED <<evVars, regVars, lsVars, wrVars, psVars>>
    /\ pvConn' = 0
    /\ pvConnected' = FALSE
    /\ pvFails' = 0
    /\ pvLast' = PvCall("drop", "ok")
    /\ UNCHANGED <<pvStarted, pvListener, pvLsStarted, pvLoop, pvStopping, pvEventers,
                   pvWallet, pvOrders, pvNextTok, pvNextConn, pvSent>>

\* ws_listener.py lines 74-86: the next connect of a started listener succeeds
PvReconnect ==
    /\ pvCalls < MaxPvCalls /\ ~pvStopping
    /\ pvLsStarted /\ pvLoop = "alive" /\ pvConn = 0
    /\ pvNextConn < MaxPvConns
    /\ pvCalls' = pvCalls + 1
    /\ UNCHANGED <<evVars, regVars, lsVars, wrVars, psVars>>
    /\ PvConnected("reconnect")
    /\ UNCHANGED <<pvStarted, pvListener, pvLsStarted, pvLoop, pvStopping, pvEventers,
                   pvWallet, pvOrders, pvNextTok>>

\* _msg_preprocessing, lines 144-189, as the read loop of the listener
\* awaits it for one frame.  An event is decoded and emitted on the event of
\* its type; an exception of the decode leaves the callback and, not being
\* named at ws_listener.py line 90, ends the _listen task after its finally
\* block closed the connection.  An acknowledgment is answered.
PvFrame(f) ==
    /\ pvCalls < MaxPvCalls
    /\ pvConn # 0 /\ pvLoop = "alive"
    /\ pvCalls' = pvCalls + 1
    /\ UNCHANGED <<evVars, regVars, lsVars, wrVars, psVars>>
    /\ LET raises == f.kind \in PvEventKinds /\ ~Decodes(f)
           msgs == IF raises THEN <<>> ELSE Accepted(AckMessages(f))
           fails == IF f.kind = "logon_id" /\ f.status # 200 THEN pvFails + 1 ELSE pvFails
           invO == IF ~raises /\ f.kind = "executionReport" THEN pvOrders ELSE {}
           invW == IF ~raises /\ f.kind = "outboundAccountPosition" THEN pvWallet ELSE {}
       IN  /\ pvLast' = PvSeen("frame", f.kind, f.status, f.fields,
                               IF raises THEN "ValidationError" ELSE "ok",
                               msgs, invW, invO, fails)
           /\ pvSent' = pvSent \o OnTransport(msgs, pvConn)
           /\ IF raises
              THEN /\ pvLoop' = "dead"
                   /\ pvConn' = 0
                   /\ pvConnected' = FALSE
                   /\ pvFails' = 0
              ELSE /\ pvFails' = fails
                   /\ UNCHANGED <<pvLoop, pvConn, pvConnected>>
    /\ UNCHANGED <<pvStarted, pvListener, pvLsStarted, pvStopping, pvEventers,
                   pvWallet, pvOrders, pvNextTok, pvNextConn>>

\* What stop() leaves once listener.stop() has returned, lines 58-60
PvStopped ==
    /\ pvStopping' = FALSE
    /\ pvConn' = 0
    /\ pvLoop' = "none"
    /\ pvEventers' = FALSE
    /\ pvWallet' = {}
    /\ pvOrders' = {}
    /\ pvFails' = 0

\* stop, lines 53-60, up to the first suspension of listener.stop()
\* (ws_listener.py lines 170-184): the flags are set; an open transport is
\* closed, which suspends; otherwise the task is cancelled and joined.
PvStop ==
    /\ pvCalls < MaxPvCalls /\ ~pvStopping
    /\ pvCalls' = pvCalls + 1
    /\ UNCHANGED <<evVars, regVars, lsVars, wrVars, psVars>>
    /\ IF ~pvStarted
       THEN /\ pvLast' = PvCall("stopAgain", "ok")
            /\ UNCHANGED <<pvStarted, pvLsStarted, pvLoop, pvConn, pvConnected, pvStopping,
                           pvEventers, pvWallet, pvOrders, pvFails>>
       ELSE /\ pvStarted' = FALSE
            /\ pvLsStarted' = FALSE
            /\ pvConnected' = FALSE
            /\ IF pvListener = "None"
               THEN /\ pvLast' = PvCall("stop", "AttributeError")
                    /\ UNCHANGED <<pvLoop, pvConn, pvStopping, pvEventers, pvWallet,
                                   pvOrders, pvFails>>
               ELSE IF pvLsStarted /\ pvConn # 0
                    THEN /\ pvStopping' = TRUE
                         /\ pvLast' = PvCall("stopping", "ok")
                         /\ UNCHANGED <<pvLoop, pvConn, pvEventers, pvWallet, pvOrders,
                                        pvFails>>
                    ELSE /\ PvStopped
                         /\ pvLast' = PvCall("stop", "ok")
    /\ UNCHANGED <<pvListener, pvNextTok, pvNextConn, pvSent>>

\* The close ended, the _listen task was cancelled and joined, stop() returns
PvStopDone ==
    /\ pvStopping
    /\ UNCHANGED <<evVars, regVars, lsVars, wrVars, psVars>>
    /\ PvStopped
    /\ pvLast' = PvCall("stop", "ok")
    /\ UNCHANGED <<pvStarted, pvListener, pvLsStarted, pvConnected, pvNextTok, pvNextConn,
                   pvSent, pvCalls>>

\* wallet_subscribe and orders_subscribe, lines 62-79 and 91-108: a fresh
\* uuid4 token; AttributeError while the events are None.
PvSubscribe(which) ==
    /\ pvCalls < MaxPvCalls /\ ~pvStopping
    /\ pvNextTok < MaxPvTokens
    /\ pvCalls' = pvCalls + 1
    /\ UNCHANGED <<evVars, regVars, lsVars, wrVars, psVars>>
    /\ pvNextTok' = pvNextTok + 1
    /\ IF ~pvEventers
       THEN /\ pvLast' = [PvCall(which, "AttributeError") EXCEPT !.tok = pvNextTok + 1]
            /\ UNCHANGED <<pvWallet, pvOrders>>
       ELSE /\ pvLast' = [PvCall(which, "ok") EXCEPT !.tok = pvNextTok + 1]
            /\ pvWallet' = IF which = "wallet_subscribe"
                           THEN pvWallet \cup {pvNextTok + 1} ELSE pvWallet
            /\ pvOrders' = IF which = "orders_subscribe"
                           THEN pvOrders \cup {pvNextTok + 1} ELSE pvOrders
    /\ UNCHANGED <<pvStarted, pvListener, pvLsStarted, pvLoop, pvConn, pvConnected,
                   pvStopping, pvEventers, pvNextConn, pvSent, pvFails>>

\* wallet_unsubscribe and orders_unsubscribe, lines 81-89 and 110-118: both
\* remove the token from _orders_eventer.
PvUnsubscribe(which, tok) ==
    /\ pvCalls < MaxPvCalls /\ ~pvStopping
    /\ pvCalls' = pvCalls + 1
    /\ UNCHANGED <<evVars, regVars, lsVars, wrVars, psVars>>
    /\ IF ~pvEventers
       THEN /\ pvLast' = [PvCall(which, "AttributeError") EXCEPT !.tok = tok]
            /\ UNCHANGED pvOrders
       ELSE /\ pvLast' = [PvCall(which, "ok") EXCEPT !.tok = tok]
            /\ pvOrders' = pvOrders \ {tok}
    /\ UNCHANGED <<pvStarted, pvListener, pvLsStarted, pvLoop, pvConn, pvConnected,
                   pvStopping, pvEventers, pvWallet, pvNextTok, pvNextConn, pvSent, pvFails>>

PvNext ==
    \/ PvStart
    \/ PvDrop
    \/ PvReconnect
    \/ \E f \in PvFrames : PvFrame(f)
    \/ PvStop
    \/ PvStopDone
    \/ \E w \in {"wallet_subscribe", "orders_subscribe"} : PvSubscribe(w)
    \/ \E w \in {"wallet_unsubscribe", "orders_unsubscribe"}, t \in PvTokens :
          PvUnsubscribe(w, t)

(***************************************************************************)
(* BinanceWrapper (wrapper.py)                                             *)
(*                                                                         *)
(* The facade with its two caches.  A balance is kept as one amount, an    *)
(* order report as its status: the name of a member of Status, or "None".  *)
(***************************************************************************)
WrAssets == {"BTC", "USDT"}
WrAmounts == {0, 1}
WrOrderIds == {1, 2}

\* The members of Status (common/enums.py lines 52-60), by name
StatusMembers ==
    {"New", "PendingNew", "PartiallyFilled", "Filled", "Canceled", "PendingCancel",
     "Rejected", "EXPIRED"}

\* The members line 435 of wrapper.py names: Status.Canceled,
\* Status.Rejected, Status.Expired
TerminalNames == {"Canceled", "Rejected", "Expired"}

\* The statuses a report can carry (status: Status | None)
WrStatuses == StatusMembers \cup {"None"}

NoBalance == [a \in {} |-> 0]
NoOrders == [i \in {} |-> "None"]

\* The balance lists of a wallet event: up to MaxDelta items
WrDeltas ==
    UNION {[1..n -> [asset : WrAssets, amount : WrAmounts]] : n \in 0..MaxDelta}

WrReports == [order_id : WrOrderIds, status : WrStatuses]

\* What the REST calls of a refresh can return: the balances of some assets,
\* the open orders of the account
WrRestWallets == UNION {[s -> WrAmounts] : s \in SUBSET WrAssets}
WrRestOrders == UNION {[s -> {"New", "PartiallyFilled"}] : s \in SUBSET WrOrderIds}

\* How the GET of a refresh ends: an answer, an error status
\* (raise_for_status: httpx.HTTPStatusError) or no answer at all
\* (httpx.TransportError)
WrRestOutcomes == {"ok", "HTTPStatusError", "TransportError"}

\* BinancePrivateREST.wallet, private_rest.py lines 90-103: account_info
\* returns None on HTTPStatusError (lines 84-86), and then
\* Wallet(balance=(None or {}).get("balances", [])) is a wallet without
\* balances.  Any other exception leaves the call.
RestWallet(outcome, w) ==
    IF outcome = "HTTPStatusError" THEN NoBalance ELSE w

\* _refresh_wallet, lines 266-276: "if wallet:" is true of every Wallet
\* object (a pydantic model defines neither __bool__ nor __len__), so the
\* cache is replaced by whatever wallet() returned.
RefreshWallet(cache, outcome, w) ==
    IF outcome = "TransportError" THEN cache ELSE RestWallet(outcome, w)

\* _refresh_open_orders, lines 278-288, over get_open_orders,
\* private_rest.py lines 144-165: None on HTTPStatusError, else a generator
\* object, which is true even when it yields nothing.
RefreshOpenOrders(cache, outcome, o) ==
    IF outcome = "ok" THEN o ELSE cache

\* What a refresh raises ("ok" for nothing)
RefreshResult(outcome) ==
    IF outcome = "TransportError" THEN "TransportError" ELSE "ok"

\* The values a caller can hold: nothing, the cache object itself, an
\* object that was the cache until the cache was rebound, a new dict
NotHeld == [wallet |-> "none", orders |-> "none"]

\* A rebinding of self._wallet or self._open_orders leaves the object a
\* caller holds behind.
LeftBehind(h) == IF h = "cache" THEN "old" ELSE h

RECURSIVE UpdateWalletDropZero(_, _)
UpdateWalletDropZero(balance, delta) ==
    IF delta = <<>> THEN balance
    ELSE LET b == Head(delta)
             keys == IF b.amount = 0 THEN DOMAIN balance \ {b.asset}
                     ELSE DOMAIN balance \cup {b.asset}
         IN  UpdateWalletDropZero(
                 [a \in keys |-> IF a = b.asset THEN b.amount ELSE balance[a]],
                 Tail(delta))

\* _update_wallet, lines 430-432: for b in balances_for_asset:
\* self._wallet.balance[b.asset] = b
RECURSIVE UpdateWallet(_, _)
UpdateWallet(balance, delta) ==
    IF delta = <<>> THEN balance
    ELSE LET b == Head(delta)
         IN  UpdateWallet(
                 [a \in DOMAIN balance \cup {b.asset} |->
                     IF a = b.asset THEN b.amount ELSE balance[a]],
                 Tail(delta))

\* _update_order_reports, lines 434-439: the exception that leaves it
\* ("ok" for none).  The list of line 435 is built on every call and
\* Status.Expired names no member: AttributeError.  dict.pop without a
\* default raises KeyError for an id that is not cached.
UpdateOrderReportsResult(orders, r) ==
    IF ~(TerminalNames \subseteq StatusMembers) THEN "AttributeError"
    ELSE IF r.status \in TerminalNames /\ r.order_id \notin DOMAIN orders THEN "KeyError"
    ELSE "ok"

\* _update_order_reports, lines 434-439: the cache it leaves
UpdateOrderReports(orders, r) ==
    IF UpdateOrderReportsResult(orders, r) # "ok" THEN orders
    ELSE IF r.status \in TerminalNames
         THEN [i \in DOMAIN orders \ {r.order_id} |-> orders[i]]
         ELSE [i \in DOMAIN orders \cup {r.order_id} |->
                  IF i = r.order_id THEN r.status ELSE orders[i]]

WrSeen(op, res, steps, delta, report) ==
    [op |-> op, res |-> res, steps |-> steps, delta |-> delta, report |-> report,
     started |-> wrStarted, wallet |-> wrWallet, orders |-> wrOrders,
     walletH |-> wrWalletH, ordersH |-> wrOrdersH, rest |-> "none", ret |-> "None",
     public |-> wrPublic, private |-> wrPrivate]

NoReport == [order_id |-> 0, status |-> "None"]

WrInit ==
    /\ wrStarted = FALSE
    /\ wrPublic = FALSE
    /\ wrPrivate = FALSE
    /\ wrWalletH = 0
    /\ wrOrdersH = 0
    /\ wrWallet = NoBalance
    /\ wrOrders = NoOrders
    /\ wrLast = [op |-> "none", res |-> "ok", steps |-> <<>>, delta |-> <<>>,
                 report |-> NoReport, started |-> FALSE, wallet |-> NoBalance,
                 orders |-> NoOrders, walletH |-> 0, ordersH |-> 0, rest |-> "none",
                 ret |-> "None", public |-> FALSE, private |-> FALSE]
    /\ wrCalls = 0
    /\ wrHeld = NotHeld

\* start, lines 66-77: the flag, then the public client, the private
\* client, the two handlers and the two refreshes, each awaited in turn; the
\* first exception ends the call.  BinancePublicWS.start sets its flag and
\* raises TypeError from the listener's constructor (public_ws.py lines
\* 50-59); BinancePrivateWS.start returns or raises ConnectionError.
WrStart ==
    /\ wrCalls < MaxWrCalls
    /\ wrCalls' = wrCalls + 1
    /\ UNCHANGED <<evVars, regVars, lsVars, pvVars, psVars>>
    /\ IF wrStarted
       THEN /\ wrLast' = WrSeen("startAgain", "ok", <<>>, <<>>, NoReport)
            /\ UNCHANGED <<wrStarted, wrPublic, wrPrivate, wrWalletH, wrOrdersH, wrWallet,
                           wrOrders, wrHeld>>
       ELSE /\ wrStarted' = TRUE
            /\ wrPublic' = TRUE
            /\ IF ~CallBinds(PublicStartKwargs)
               THEN /\ wrLast' = WrSeen("start", "TypeError", <<"public.start">>, <<>>,
                                        NoReport)
                    /\ UNCHANGED <<wrPrivate, wrWalletH, wrOrdersH, wrWallet, wrOrders,
                                   wrHeld>>
               ELSE /\ wrPrivate' = TRUE
                    /\ \/ /\ wrLast' = WrSeen("start", "ConnectionError",
                                              <<"public.start", "private.start">>, <<>>,
                                              NoReport)
                          /\ UNCHANGED <<wrWalletH, wrOrdersH, wrWallet, wrOrders, wrHeld>>
                       \/ /\ wrWalletH' = wrWalletH + 1
                          /\ wrOrdersH' = wrOrdersH + 1
                          /\ \E ow, oo \in WrRestOutcomes, w \in WrRestWallets,
                                o \in WrRestOrders :
                                /\ wrWallet' = RefreshWallet(wrWallet, ow, w)
                                /\ wrOrders' = IF RefreshResult(ow) = "ok"
                                               THEN RefreshOpenOrders(wrOrders, oo, o)
                                               ELSE wrOrders
                                /\ wrHeld' =
                                      [wallet |-> IF ow = "TransportError"
                                                  THEN wrHeld.wallet
                                                  ELSE LeftBehind(wrHeld.wallet),
                                       orders |-> IF RefreshResult(ow) = "ok" /\ oo = "ok"
                                                  THEN LeftBehind(wrHeld.orders)
                                                  ELSE wrHeld.orders]
                                /\ wrLast' =
                                      WrSeen("start",
                                             IF RefreshResult(ow) = "ok"
                                             THEN RefreshResult(oo) ELSE RefreshResult(ow),
                                             <<"public.start", "private.start",
                                               "wallet_subscribe", "orders_subscribe",
                                               "refresh_wallet">>
                                             \o (IF RefreshResult(ow) = "ok"
                                                 THEN <<"refresh_open_orders">> ELSE <<>>),
                                             <<>>, NoReport)

\* stop, lines 79-87.  BinancePublicWS.stop clears its flag and awaits
\* self._listener.stop(): AttributeError while _listener is None
\* (public_ws.py lines 61-68), which ends the call before the private client
\* is stopped and the caches are reset.
WrStop ==
    /\ wrCalls < MaxWrCalls
    /\ wrCalls' = wrCalls + 1
    /\ UNCHANGED <<evVars, regVars, lsVars, pvVars, psVars>>
    /\ IF ~wrStarted
       THEN /\ wrLast' = WrSeen("stopAgain", "ok", <<>>, <<>>, NoReport)
            /\ UNCHANGED <<wrStarted, wrPublic, wrPrivate, wrWalletH, wrOrdersH, wrWallet,
                           wrOrders, wrHeld>>
       ELSE /\ wrStarted' = FALSE
            /\ wrPublic' = FALSE
            /\ IF wrPublic /\ ~CallBinds(PublicStartKwargs)
               THEN /\ wrLast' = WrSeen("stop", "AttributeError", <<"public.stop">>, <<>>,
                                        NoReport)
                    /\ UNCHANGED <<wrPrivate, wrWalletH, wrOrdersH, wrWallet, wrOrders,
                                   wrHeld>>
               ELSE /\ wrPrivate' = FALSE
                    /\ wrWalletH' = 0
                    /\ wrOrdersH' = 0
                    /\ wrWallet' = NoBalance
                    /\ wrOrders' = NoOrders
                    /\ wrHeld' = [wallet |-> LeftBehind(wrHeld.wallet),
                                  orders |-> LeftBehind(wrHeld.orders)]
                    /\ wrLast' = WrSeen("stop", "ok", <<"public.stop", "private.stop">>,
                                        <<>>, NoReport)

\* wallet(refresh), lines 214-234, with _refresh_wallet, lines 266-276:
\* the refresh when asked for, then "return self._wallet", the cache object.
WrWalletCall(refresh, outcome, w) ==
    /\ wrCalls < MaxWrCalls
    /\ wrCalls' = wrCalls + 1
    /\ UNCHANGED <<evVars, regVars, lsVars, pvVars, psVars>>
    /\ refresh \/ (outcome = "ok" /\ w = NoBalance)
    /\ wrWallet' = IF refresh THEN RefreshWallet(wrWallet, outcome, w) ELSE wrWallet
    /\ wrHeld' = [wrHeld EXCEPT !.wallet =
                     IF refresh /\ RefreshResult(outcome) # "ok" THEN @ ELSE "cache"]
    /\ wrLast' = [WrSeen(IF refresh THEN "refresh_wallet" ELSE "wallet",
                         IF refresh THEN RefreshResult(outcome) ELSE "ok",
                         <<>>, <<>>, NoReport)
                    EXCEPT !.rest = IF refresh THEN outcome ELSE "none",
                           !.ret = IF refresh /\ RefreshResult(outcome) # "ok"
                                   THEN "None" ELSE "cache"]
    /\ UNCHANGED <<wrStarted, wrPublic, wrPrivate, wrWalletH, wrOrdersH, wrOrders>>

\* open_orders(symbol, refresh), lines 236-264, with _refresh_open_orders,
\* lines 278-288: the refresh when asked for, then the cache object itself
\* when no symbol is given, else a new dict of the same report objects.
WrOpenOrdersCall(refresh, outcome, o, bySymbol) ==
    /\ wrCalls < MaxWrCalls
    /\ wrCalls' = wrCalls + 1
    /\ UNCHANGED <<evVars, regVars, lsVars, pvVars, psVars>>
    /\ refresh \/ (outcome = "ok" /\ o = NoOrders)
    /\ wrOrders' = IF refresh THEN RefreshOpenOrders(wrOrders, outcome, o) ELSE wrOrders
    /\ LET raised == refresh /\ RefreshResult(outcome) # "ok"
           ret == IF raised THEN "None" ELSE IF bySymbol THEN "copy" ELSE "cache"
           before == IF refresh /\ outcome = "ok" THEN LeftBehind(wrHeld.orders)
                     ELSE wrHeld.orders
       IN  /\ wrHeld' = [wrHeld EXCEPT !.orders = IF raised THEN before ELSE ret]
           /\ wrLast' = [WrSeen(IF refresh THEN "refresh_open_orders" ELSE "open_orders",
                                IF refresh THEN RefreshResult(outcome) ELSE "ok",
                                <<>>, <<>>, NoReport)
                           EXCEPT !.rest = IF refresh THEN outcome ELSE "none",
                                  !.ret = ret]
    /\ UNCHANGED <<wrStarted, wrPublic, wrPrivate, wrWalletH, wrOrdersH, wrWallet>>

\* The caller writes through the Wallet it was handed (wrapper.py line
\* 234): held.balance[asset] = amount.  The write lands in the cache when
\* the object held is the cache object.
WrCallerWritesWallet(a, v) ==
    /\ wrCalls < MaxWrCalls
    /\ wrCalls' = wrCalls + 1
    /\ UNCHANGED <<evVars, regVars, lsVars, pvVars, psVars>>
    /\ wrHeld.wallet # "none"
    /\ wrWallet' = IF wrHeld.wallet = "cache"
                   THEN [x \in DOMAIN wrWallet \cup {a} |->
                            IF x = a THEN v ELSE wrWallet[x]]
                   ELSE wrWallet
    /\ wrLast' = WrSeen("caller_write", "ok", <<>>, <<>>, NoReport)
    /\ UNCHANGED <<wrStarted, wrPublic, wrPrivate, wrWalletH, wrOrdersH, wrOrders, wrHeld>>

\* The caller deletes an entry of the dict it was handed (wrapper.py lines
\* 262 and 264): held.pop(order_id, None).
WrCallerWritesOrders(i) ==
    /\ wrCalls < MaxWrCalls
    /\ wrCalls' = wrCalls + 1
    /\ UNCHANGED <<evVars, regVars, lsVars, pvVars, psVars>>
    /\ wrHeld.orders # "none"
    /\ wrOrders' = IF wrHeld.orders = "cache"
                   THEN [x \in DOMAIN wrOrders \ {i} |-> wrOrders[x]]
                   ELSE wrOrders
    /\ wrLast' = WrSeen("caller_write", "ok", <<>>, <<>>, NoReport)
    /\ UNCHANGED <<wrStarted, wrPublic, wrPrivate, wrWalletH, wrOrdersH, wrWallet, wrHeld>>

\* What the facade's wallet_subscribe / orders_subscribe hand back for the
\* token the private client returned: lines 390 and 418 await the call and
\* have no return statement.
FacadeSubscribeReturn(token) == "None"

\* wallet_subscribe / orders_subscribe of the facade, lines 375-390 and
\* 403-418, over BinancePrivateWS.wallet_subscribe / orders_subscribe
\* (private_ws.py lines 62-79, 91-108): self._wallet_eventer.add raises
\* AttributeError while the eventer is None, that is before the private
\* client's start() and after its stop().
WrSubscribe(which) ==
    /\ wrCalls < MaxWrCalls
    /\ wrCalls' = wrCalls + 1
    /\ UNCHANGED <<evVars, regVars, lsVars, pvVars, psVars>>
    /\ IF ~wrPrivate
       THEN /\ wrLast' = WrSeen(which, "AttributeError", <<>>, <<>>, NoReport)
            /\ UNCHANGED <<wrWalletH, wrOrdersH>>
       ELSE /\ wrWalletH' = IF which = "wallet_subscribe" THEN wrWalletH + 1 ELSE wrWalletH
            /\ wrOrdersH' = IF which = "orders_subscribe" THEN wrOrdersH + 1 ELSE wrOrdersH
            /\ wrLast' = [WrSeen(which, "ok", <<>>, <<>>, NoReport)
                            EXCEPT !.ret = FacadeSubscribeReturn("token")]
    /\ UNCHANGED <<wrStarted, wrPublic, wrPrivate, wrWallet, wrOrders, wrHeld>>

\* _update_wallet(balances_for_asset), lines 430-432
WrUpdateWallet(delta) ==
    /\ wrCalls < MaxWrCalls
    /\ wrCalls' = wrCalls + 1
    /\ UNCHANGED <<evVars, regVars, lsVars, pvVars, psVars>>
    /\ wrWallet' = UpdateWallet(wrWallet, delta)
    /\ wrLast' = WrSeen("update_wallet", "ok", <<>>, delta, NoReport)
    /\ UNCHANGED <<wrStarted, wrPublic, wrPrivate, wrWalletH, wrOrdersH, wrOrders, wrHeld>>

\* _update_order_reports(order_report), lines 434-439
WrUpdateOrderReports(r) ==
    /\ wrCalls < MaxWrCalls
    /\ wrCalls' = wrCalls + 1
    /\ UNCHANGED <<evVars, regVars, lsVars, pvVars, psVars>>
    /\ wrOrders' = UpdateOrderReports(wrOrders, r)
    /\ wrLast' = WrSeen("update_order_reports", UpdateOrderReportsResult(wrOrders, r),
                        <<>>, <<>>, r)
    /\ UNCHANGED <<wrStarted, wrPublic, wrPrivate, wrWalletH, wrOrdersH, wrWallet, wrHeld>>

WrNext ==
    \/ WrStart
    \/ WrStop
    \/ \E refresh \in BOOLEAN, outcome \in WrRestOutcomes, w \in WrRestWallets :
          WrWalletCall(refresh, outcome, w)
    \/ \E refresh \in BOOLEAN, outcome \in WrRestOutcomes, o \in WrRestOrders,
          bySymbol \in BOOLEAN : WrOpenOrdersCall(refresh, outcome, o, bySymbol)
    \/ \E a \in WrAssets, v \in WrAmounts : WrCallerWritesWallet(a, v)
    \/ \E i \in WrOrderIds : WrCallerWritesOrders(i)
    \/ \E which \in {"wallet_subscribe", "orders_subscribe"} : WrSubscribe(which)
    \/ \E d \in WrDeltas : WrUpdateWallet(d)
    \/ \E r \in WrReports : WrUpdateOrderReports(r)

(***************************************************************************)
(* PrivateWSListener (binance/ws/ws_private_listener.py)                   *)
(*                                                                         *)
(* An AsyncWSListener with a listen key and a keepalive task.  The connect *)
(* loop of the base class is kept by what this class depends on: whether   *)
(* it runs, and whether it has signalled a connection.  The two REST       *)
(* requests (the POST that creates the key, the PUT that renews it) are    *)
(* made by httpx outside these sources and are taken by their outcomes.    *)
(* A start() is not begun while a stop() is still joining the keepalive    *)
(* task; a stop() may come at any time.                                    *)
(***************************************************************************)
\* The reconnect_delay a PrivateWSListener is built with
PsDelays == {0, 5}

\* __init__, lines 10-24: super().__init__(url, msg_handler, reconnect_delay)
\* passes three positional arguments to AsyncWSListener.__init__(url,
\* on_message, on_connected, ...) (ws_listener.py lines 15-23), so the delay
\* becomes the on_connected handler and reconnect_delay keeps its default.
OnConnectedBound(delay) == delay

\* _on_connected, ws_listener.py lines 61-63: a handler that is false is
\* skipped; a number that is not zero is called, which raises TypeError.
OnConnectedRaises == psOnConnected # 0

\* is_started, ws_listener.py line 50
PsIsStarted == ~psStopEvent

\* overlap records that stop() was called on the listener while the start()
\* now in progress, or the last one made, was acquiring the listen key.
PsIdleCall == [start |-> "idle", woken |-> FALSE, stop |-> "idle", keep |-> "none",
               started |-> FALSE, overlap |-> FALSE]

PsSeen(op, res, steps, keep, started) ==
    [op |-> op, res |-> res, steps |-> steps, keep |-> keep, started |-> started]

PsInitCommon ==
    /\ psStopEvent = TRUE
    /\ psStartEvent = FALSE
    /\ psListenKey = 0
    /\ psTask = "none"
    /\ psKeep = "none"
    /\ psCall = PsIdleCall
    /\ psRenewals = 0
    /\ psRenewed = "none"
    /\ psLast = PsSeen("none", "ok", <<>>, "none", FALSE)
    /\ psCalls = 0

PsIdle == PsInitCommon /\ psOnConnected = OnConnectedBound(5)

PsFrame == <<evVars, regVars, lsVars, pvVars, wrVars, psOnConnected>>

\* start, lines 30-37: nothing when started; else remove_event clears the
\* stop event (tools.py lines 24-27) and the POST is awaited.
PsStart ==
    /\ psCalls < MaxPsCalls
    /\ psCall.start = "idle" /\ psCall.stop = "idle"
    /\ psCalls' = psCalls + 1
    /\ IF PsIsStarted
       THEN /\ psLast' = PsSeen("start", "ok", <<>>, psKeep, TRUE)
            /\ psCall' = [psCall EXCEPT !.overlap = FALSE]
            /\ UNCHANGED psStopEvent
       ELSE /\ psStopEvent' = FALSE
            /\ psCall' = [psCall EXCEPT !.start = "key", !.woken = FALSE,
                                        !.overlap = FALSE]
            /\ UNCHANGED psLast
    /\ UNCHANGED <<PsFrame, psStartEvent, psListenKey, psTask, psKeep, psRenewals, psRenewed>>

\* A mutant of PsKeyDone: the stop event is not set again when the
\* acquisition of the listen key raises.
PsKeyDoneLeavesEvent(ok) ==
    /\ psCall.start = "key"
    /\ IF ok
       THEN /\ psListenKey' = psListenKey + 1
            /\ psStopEvent' = FALSE
            /\ psStartEvent' = FALSE
            /\ psTask' = "connecting"
            /\ psCall' = [psCall EXCEPT !.start = "wait", !.woken = FALSE]
            /\ UNCHANGED psLast
       ELSE /\ psCall' = [psCall EXCEPT !.start = "idle"]
            /\ psLast' = PsSeen("start", "HTTPError", <<"create_listen_key">>, psKeep, FALSE)
            /\ UNCHANGED <<psStopEvent, psListenKey, psStartEvent, psTask>>
    /\ UNCHANGED <<PsFrame, psKeep, psRenewals, psRenewed, psCalls>>

\* start, lines 34-39, when _create_listen_key (lines 50-56) is over:
\* remove_event sets the stop event on the way out (tools.py lines 28-31).
\* An exception leaves start().  With a key, AsyncWSListener.start
\* (ws_listener.py lines 146-168) finds the listener not started, clears both
\* events, creates the connect loop and waits for the start event.
PsKeyDone(ok) ==
    /\ psCall.start = "key"
    /\ IF ok
       THEN /\ psListenKey' = psListenKey + 1
            /\ psStopEvent' = FALSE
            /\ psStartEvent' = FALSE
            /\ psTask' = "connecting"
            /\ psCall' = [psCall EXCEPT !.start = "wait", !.woken = FALSE]
            /\ UNCHANGED psLast
       ELSE /\ psStopEvent' = TRUE
            /\ psCall' = [psCall EXCEPT !.start = "idle"]
            /\ psLast' = PsSeen("start", "HTTPError", <<"create_listen_key">>, psKeep, FALSE)
            /\ UNCHANGED <<psListenKey, psStartEvent, psTask>>
    /\ UNCHANGED <<PsFrame, psKeep, psRenewals, psRenewed, psCalls>>

\* _listen, ws_listener.py lines 77-87: the connection is made and
\* on_connected awaited.  A TypeError raised there is not caught by line 90:
\* the task ends with the start event clear.  Otherwise the start event is
\* set, which wakes the start() that waits for it.
PsConnect ==
    /\ psTask = "connecting" /\ PsIsStarted
    /\ IF OnConnectedRaises
       THEN /\ psTask' = "done"
            /\ UNCHANGED <<psStartEvent, psCall>>
       ELSE /\ psTask' = "reading"
            /\ psStartEvent' = TRUE
            /\ psCall' = IF psCall.start = "wait" THEN [psCall EXCEPT !.woken = TRUE]
                         ELSE psCall
    /\ UNCHANGED <<PsFrame, psStopEvent, psListenKey, psKeep, psRenewals, psRenewed, psLast,
                   psCalls>>

\* _listen, ws_listener.py lines 87-116: the connection ends, the start
\* event is cleared and the loop goes on to the next attempt.
PsDrop ==
    /\ psTask = "reading" /\ PsIsStarted
    /\ psTask' = "connecting"
    /\ psStartEvent' = FALSE
    /\ UNCHANGED <<PsFrame, psStopEvent, psListenKey, psKeep, psCall, psRenewals, psRenewed,
                   psLast, psCalls>>

\* start, lines 39-42, when the wait for the start event ended with the
\* event: AsyncWSListener.start returns and the keepalive task is created.
PsStartReturns ==
    /\ psCall.start = "wait" /\ psCall.woken
    /\ psKeep' = "waiting"
    /\ psCall' = [psCall EXCEPT !.start = "idle", !.woken = FALSE]
    /\ psLast' = PsSeen("start", "ok",
                        <<"create_listen_key", "base.start", "keepalive.create">>,
                        psKeep, FALSE)
    /\ UNCHANGED <<PsFrame, psStopEvent, psStartEvent, psListenKey, psTask, psRenewals,
                   psRenewed, psCalls>>

\* AsyncWSListener.stop, ws_listener.py lines 170-184: both events, the
\* transport and the connect loop
PsBaseStop ==
    /\ psStopEvent' = TRUE
    /\ psStartEvent' = FALSE
    /\ psTask' = IF psTask \in {"connecting", "reading"} THEN "done" ELSE psTask

\* start, ws_listener.py lines 163-168, when the wait ran out of time:
\* self.stop(), which is PrivateWSListener.stop, then ConnectionError.  No
\* keepalive task is running while a start() is in progress.
PsStartTimeout ==
    /\ psCall.start = "wait" /\ ~psCall.woken
    /\ IF PsIsStarted THEN PsBaseStop
       ELSE UNCHANGED <<psStopEvent, psStartEvent, psTask>>
    /\ psCall' = [psCall EXCEPT !.start = "idle"]
    /\ psLast' = PsSeen("start", "ConnectionError", <<"create_listen_key", "base.start">>,
                        psKeep, FALSE)
    /\ UNCHANGED <<PsFrame, psListenKey, psKeep, psRenewals, psRenewed, psCalls>>

\* stop, line 47: the keepalive task is awaited when there is one
StopAwaitsNothing(keep) == FALSE

StopAwaits(keep) == keep # "none"

\* stop, lines 44-48: nothing when not started; else the base stop, and then
\* gather(self._keepalive_task), which returns at once for a task that is
\* done.  The task is not cancelled.
PsStop ==
    /\ psCalls < MaxPsCalls
    /\ psCall.stop = "idle"
    /\ psCalls' = psCalls + 1
    /\ IF ~PsIsStarted
       THEN /\ psLast' = PsSeen("stop", "ok", <<>>, psKeep, FALSE)
            /\ UNCHANGED <<psStopEvent, psStartEvent, psTask, psCall>>
       ELSE /\ PsBaseStop
            /\ IF StopAwaits(psKeep) /\ psKeep # "done"
               THEN /\ psCall' = [psCall EXCEPT !.stop = "join", !.keep = psKeep,
                                                !.started = TRUE,
                                                !.overlap = @ \/ psCall.start = "key"]
                    /\ UNCHANGED psLast
               ELSE /\ psLast' = PsSeen("stop", "ok",
                                        IF StopAwaits(psKeep)
                                        THEN <<"base.stop", "keepalive.join">>
                                        ELSE <<"base.stop">>,
                                        psKeep, TRUE)
                    /\ psCall' = [psCall EXCEPT !.overlap = @ \/ psCall.start = "key"]
    /\ UNCHANGED <<PsFrame, psListenKey, psKeep, psRenewals, psRenewed>>

\* stop, line 48: the keepalive task is done, gather returns
PsStopJoined ==
    /\ psCall.stop = "join" /\ psKeep = "done"
    /\ psCall' = [psCall EXCEPT !.stop = "idle"]
    /\ psLast' = PsSeen("stop", "ok", <<"base.stop", "keepalive.join">>, psCall.keep,
                        psCall.started)
    /\ UNCHANGED <<PsFrame, psStopEvent, psStartEvent, psListenKey, psTask, psKeep,
                   psRenewals, psRenewed, psCalls>>

\* _keepalive_listen_key, lines 61-67: wait_for(stop_event.wait(), 30 min)
\* runs out of time while the listener is started: the PUT is made.
PsKeepInterval ==
    /\ psKeep = "waiting" /\ PsIsStarted
    /\ psRenewals < MaxRenewals
    /\ psKeep' = "renewing"
    /\ psRenewals' = psRenewals + 1
    /\ UNCHANGED <<PsFrame, psStopEvent, psStartEvent, psListenKey, psTask, psCall, psRenewed,
                   psLast, psCalls>>

\* _keepalive_listen_key, lines 61-65: the stop event is set, the wait
\* returns and the loop is left.
PsKeepWake ==
    /\ psKeep = "waiting" /\ ~PsIsStarted
    /\ psKeep' = "done"
    /\ UNCHANGED <<PsFrame, psStopEvent, psStartEvent, psListenKey, psTask, psCall,
                   psRenewals, psRenewed, psLast, psCalls>>

PsRenewalOutcomes == {"ok", "HTTPError"}

AfterRenewalFatal(outcome, started) ==
    IF started /\ outcome = "ok" THEN "waiting" ELSE "done"

\* _keepalive_listen_key, lines 61 and 69-77: httpx.HTTPError (the request
\* failed, timed out after 10 s, or raise_for_status) is caught and printed;
\* the loop goes on while the listener is started.
AfterRenewal(outcome, started) ==
    IF started THEN "waiting" ELSE "done"

\* The PUT of the keepalive loop is over.
PsRenewDone(outcome) ==
    /\ psKeep = "renewing"
    /\ psKeep' = AfterRenewal(outcome, PsIsStarted)
    /\ psRenewed' = outcome
    /\ UNCHANGED <<PsFrame, psStopEvent, psStartEvent, psListenKey, psTask, psCall,
                   psRenewals, psLast, psCalls>>

PsNext ==
    \/ PsStart
    \/ \E ok \in BOOLEAN : PsKeyDone(ok)
    \/ PsConnect
    \/ PsDrop
    \/ PsStartReturns
    \/ PsStartTimeout
    \/ PsStop
    \/ PsStopJoined
    \/ PsKeepInterval
    \/ PsKeepWake
    \/ \E outcome \in PsRenewalOutcomes : PsRenewDone(outcome)

\* --------------------------------------------------- the specifications ----

vars == <<evVars, regVars, lsVars, pvVars, wrVars, psVars>>

LsIdle ==
    /\ LsInitCommon
    /\ cbInstalled = FALSE
    /\ timed = FALSE
    /\ script = -1

\* One AsyncEvent, its handlers and its emits.
InitEvent == EvInit /\ RegInit /\ PvInit /\ WrInit /\ PsIdle /\ LsIdle
NextEvent == EvNext
SpecEvent == InitEvent /\ [][NextEvent]_vars

\* One BinancePublicWS and the calls made on it.
InitRegistry == EvInit /\ RegInit /\ PvInit /\ WrInit /\ PsIdle /\ LsIdle
NextRegistry == RegNext
SpecRegistry == InitRegistry /\ [][NextRegistry]_vars

\* One BinancePrivateWS, the calls made on it and the frames of its listener.
InitPrivate == EvInit /\ RegInit /\ PvInit /\ WrInit /\ PsIdle /\ LsIdle
NextPrivate == PvNext
SpecPrivate == InitPrivate /\ [][NextPrivate]_vars

\* One PrivateWSListener, built with either delay, the calls made on it, its
\* connect loop and its keepalive task.
InitSession ==
    /\ EvInit /\ RegInit /\ PvInit /\ WrInit /\ LsIdle
    /\ PsInitCommon
    /\ psOnConnected \in {OnConnectedBound(d) : d \in PsDelays}
NextSession == PsNext
SpecSession == InitSession /\ [][NextSession]_vars

\* One BinanceWrapper, the calls made on it and its two cache handlers.
InitFacade == EvInit /\ RegInit /\ PvInit /\ WrInit /\ PsIdle /\ LsIdle
NextFacade == WrNext
SpecFacade == InitFacade /\ [][NextFacade]_vars

LtNext(t) ==
    \/ LtRun(t)
    \/ LtConnectOk(t)
    \/ LtOnConnectedDone(t)
    \/ LtConnectFail(t)
    \/ LtConnectReject(t)
    \/ LtFrame(t)
    \/ \E ok \in BOOLEAN : LtOnMessageDone(t, ok)
    \/ \E normal \in BOOLEAN : LtReadEnd(t, normal)
    \/ LtAexitDone(t)
    \/ LtOnErrorDone(t)
    \/ LtOnCloseDone(t)
    \/ LtCloseSendDone(t)
    \/ LtCloseSendTimeout(t)
    \/ LtSleepDone(t)
    \/ LtCancelled(t)
    \/ LtAbortDone(t)

StNext(s) ==
    \/ StRun(s)
    \/ StGet(s)
    \/ StCancelled(s)

CallNext(c) ==
    \/ Start(c)
    \/ Stop(c)
    \/ StartReturns(c)
    \/ StartTimeout(c)
    \/ StopClosed(c)
    \/ StopJoined(c)

LsNext ==
    \/ \E c \in Slots : CallNext(c)
    \/ Send
    \/ \E t \in TaskIds : LtNext(t)
    \/ \E s \in SendIds : StNext(s)

\* One AsyncWSListener with its tasks and transports; the calls on it are
\* made one after another, with traffic in both directions.
Init == EvInit /\ RegInit /\ PvInit /\ WrInit /\ PsIdle /\ LsInit
Next == LsNext
Spec == Init /\ [][Next]_vars

\* The same listener without traffic under the scheduling asyncio gives: a task that can run
\* does run, a connect attempt ends (open_timeout), a handler returns, a
\* close ends, and sleep() and wait_for() end when their time is up.  How
\* long a connection lasts and which calls are made is left open.
InitLive ==
    /\ EvInit /\ RegInit /\ PvInit /\ WrInit /\ PsIdle
    /\ LsInitCommon
    /\ cbInstalled \in BOOLEAN
    /\ timed = FALSE
    /\ script = -1

LtProgress(t) ==
    \/ LtRun(t)
    \/ LtConnectOk(t)
    \/ LtOnConnectedDone(t)
    \/ LtConnectFail(t)
    \/ LtConnectReject(t)
    \/ LtOnErrorDone(t)
    \/ LtOnCloseDone(t)
    \/ LtCloseSendDone(t)
    \/ LtCloseSendTimeout(t)
    \/ LtSleepDone(t)
    \/ LtCancelled(t)
    \/ LtAbortDone(t)

CallProgress(c) ==
    \/ StartReturns(c)
    \/ StartTimeout(c)
    \/ StopClosed(c)
    \/ StopJoined(c)

NextLive ==
    \/ \E c \in Slots : Start(c) \/ Stop(c) \/ CallProgress(c)
    \/ \E t \in TaskIds : LtProgress(t)
    \/ \E t \in TaskIds, normal \in BOOLEAN : LtReadEnd(t, normal)
    \/ \E s \in SendIds : StNext(s)

Fairness ==
    /\ \A t \in TaskIds : WF_vars(LtProgress(t))
    /\ \A s \in SendIds : WF_vars(StNext(s))
    /\ \A c \in Slots : WF_vars(CallProgress(c))

SpecLive == InitLive /\ [][NextLive]_vars /\ Fairness

\* The listener in counted time against a transport whose first attempts fail
\* and whose next attempt succeeds; no handlers, one call of start().
InitBoot ==
    /\ EvInit /\ RegInit /\ PvInit /\ WrInit /\ PsIdle
    /\ LsInitCommon
    /\ cbInstalled = FALSE
    /\ timed = TRUE
    /\ script \in 0..MaxFailFirst

NextBoot ==
    \/ Tick
    \/ \E c \in Slots : Start(c) \/ StartReturns(c) \/ StartTimeout(c) \/ StopJoined(c)
    \/ \E t \in TaskIds : LtRun(t) \/ LtConnectOk(t) \/ LtConnectFail(t) \/ LtSleepDone(t)
                             \/ LtCancelled(t)
    \/ \E s \in SendIds : StRun(s)

SpecBoot == InitBoot /\ [][NextBoot]_vars

(***************************************************************************)
(* The claims                                                              *)
(***************************************************************************)

\* C1: on a started registry, the first kline_subscribe of a key that has no
\* fan-out event hands exactly one SUBSCRIBE to the listener and every
\* further one none; kline_unsubscribe(handler_token=) hands over nothing
\* while other handlers of the key remain and exactly one UNSUBSCRIBE when
\* it removes the key's last token.
UpstreamOncePerKey ==
    /\ (regLast.op = "subscribe" /\ regLast.started) =>
          /\ regLast.res = "ok"
          /\ regLast.enq = IF regLast.hadEvent THEN <<>>
                           ELSE <<SubscriptionMsg(regLast.key, TRUE)>>
    /\ (regLast.op = "unsubscribe_token" /\ regLast.started /\ regLast.hadEvent) =>
          /\ regLast.res = "ok"
          /\ regLast.enq = IF regLast.nHandlers > 1 THEN <<>>
                           ELSE <<SubscriptionMsg(regLast.key, FALSE)>>

\* C2: an emit enters exactly the handlers of its snapshot, each once: a
\* handler added after the snapshot is not entered for that emit, one
\* removed after the snapshot is still entered once.
EmitDeliversToSnapshot ==
    \A e \in EvEmits, k \in EvTokens :
        /\ evInvoked[e][k] <= 1
        /\ evInvoked[e][k] = 1 => evPc[e] # "idle" /\ k \in DOMAIN evSnap[e]
        /\ (evPc[e] = "returned" /\ k \in DOMAIN evSnap[e]) => evInvoked[e][k] = 1

\* An emit has returned; a handler removed since its snapshot was entered
\* once and a handler added since was not entered.
EmitDeliversToSnapshotWitness ==
    \E e \in EvEmits, k \in EvTokens, j \in EvTokens :
        /\ evPc[e] = "returned"
        /\ k \in DOMAIN evSnap[e] /\ k \notin DOMAIN evHandlers /\ evInvoked[e][k] = 1
        /\ j \notin DOMAIN evSnap[e] /\ j \in DOMAIN evHandlers /\ evInvoked[e][j] = 0

\* C3: once a handler of an emit has raised, every other handler of the
\* snapshot is still entered once and runs on: none is cancelled, one not
\* yet entered can still be entered, one that is suspended can still finish.
HandlerFailureIsIsolated ==
    \A e \in EvEmits :
        (\E k \in EvTokens : evChild[e][k] = "raised") =>
            \A j \in DOMAIN evSnap[e] :
                /\ evChild[e][j] \in {"pending", "running", "done", "raised"}
                /\ evInvoked[e][j] <= 1
                /\ evChild[e][j] = "pending" => ENABLED EvChildStart(e, j, "done")
                /\ evChild[e][j] = "running" => ENABLED EvChildFinish(e, j, "done")
                /\ evChild[e][j] \in {"done", "raised"} => evInvoked[e][j] = 1

\* An emit has raised to its caller; the handler that raised and a sibling
\* that finished after being entered once.
HandlerFailureIsIsolatedWitness ==
    \E e \in EvEmits, k \in EvTokens, j \in EvTokens :
        /\ evPc[e] = "raised"
        /\ evChild[e][k] = "raised"
        /\ j # k /\ evChild[e][j] = "done" /\ evInvoked[e][j] = 1

\* C4: a kline frame for a key that has no fan-out event is dropped: no
\* handler is entered and no exception leaves the dispatcher.
UnroutableFrameIsDropped ==
    (regLast.op = "dispatch" /\ regLast.key # NoKey /\ ~regLast.hadEvent) =>
        regLast.res = "ok" /\ regLast.inv = 0

\* C5: in every reachable state at most one transport is open and at most
\* one send task is alive.
AtMostOneTransportAndSender ==
    /\ Cardinality(OpenTransports) <= 1
    /\ Cardinality(AliveSendTasks) <= 1

\* C6: a start() on a stopped listener returns normally only after the
\* connect loop signalled a connection; when it raises ConnectionError the
\* listener is stopped and its connect loop has finished.
StartWaitsOrTearsDown ==
    /\ (lsLast.op = "start" /\ lsLast.res = "ok") => lsLast.sig
    /\ (lsLast.op = "start" /\ lsLast.res = "ConnectionError") =>
          lsLast.stopped /\ lsLast.taskDone /\ lsLast.loops = 0

\* A start() ran out of time: it raised, the listener is stopped and the
\* connect loop it created was cancelled and has finished.
StartWaitsOrTearsDownWitness ==
    /\ lsLast.op = "start" /\ lsLast.res = "ConnectionError"
    /\ lsLast.stopped /\ lsLast.loops = 0
    /\ lsTask # None /\ lt[lsTask].pc = "done" /\ lt[lsTask].exc = "cancelled"

\* C7: when stop() returns, the listener is stopped and neither a connect
\* loop nor a send task of it is alive, whatever the listener was doing when
\* stop() was called; a stop() of a stopped listener changes nothing.
StopLeavesNoTask ==
    lsLast.op = "stop" => lsLast.stopped /\ lsLast.loops = 0 /\ lsLast.sends = 0

\* C8: the messages send() accepted are written in the order they were
\* queued, none of them twice, and each transport by one writer; so two
\* messages queued before the connection was signalled are written in the
\* order they were queued.
SingleOrderedWriter ==
    /\ \A i, j \in DOMAIN written : i < j => written[i].msg < written[j].msg
    /\ \A i, j \in DOMAIN written :
          written[i].ws = written[j].ws => written[i].by = written[j].by

\* A connect attempt is being made or a connection is up.
Attempting ==
    \E t \in TaskIds : lt[t].pc \in {"connecting", "onConnected", "reading", "onMessage"}

\* C9: while the listener is started, every end of a connection or of a
\* connect attempt is followed by another attempt: from every state in which
\* the listener is started, an attempt is made or stop() is called.
RetriesUntilStopped == IsStarted ~> (Attempting \/ ~IsStarted)

LogonRetriedOnce ==
    (pvLast.op = "frame" /\ pvLast.kind = "logon_id" /\ pvLast.status # 200
        /\ pvLast.connected /\ pvLast.started) =>
            pvLast.enq = IF pvLast.fails = 1 THEN <<Logon>> ELSE <<>>

\* C12 as stated: session.logon is queued on connect; a dispatch queues
\* userDataStream.subscribe only for a logon acknowledgment with status 200
\* or a failed user-data acknowledgment; and every logon acknowledgment with
\* status 200 queues exactly one userDataStream.subscribe and no logon.
HandshakeOrder ==
    /\ (pvLast.op \in {"start", "reconnect"} /\ pvLast.res = "ok") => pvLast.enq = <<Logon>>
    /\ pvLast.op = "frame" =>
          /\ (\E i \in DOMAIN pvLast.enq : pvLast.enq[i] = UserData) =>
                \/ pvLast.kind = "logon_id" /\ pvLast.status = 200
                \/ pvLast.kind = "user_data_id" /\ pvLast.status # 200
          /\ (pvLast.kind = "logon_id" /\ pvLast.status = 200) => pvLast.enq = <<UserData>>

\* C12: as above, with the last part for the acknowledgments dispatched
\* while the listener is started; one dispatched after stop() set the
\* listener's flags queues nothing.
HandshakeOrderWhileStarted ==
    /\ (pvLast.op \in {"start", "reconnect"} /\ pvLast.res = "ok") => pvLast.enq = <<Logon>>
    /\ pvLast.op = "frame" =>
          /\ (\E i \in DOMAIN pvLast.enq : pvLast.enq[i] = UserData) =>
                \/ pvLast.kind = "logon_id" /\ pvLast.status = 200
                \/ pvLast.kind = "user_data_id" /\ pvLast.status # 200
          /\ (pvLast.kind = "logon_id" /\ pvLast.status = 200) =>
                pvLast.enq = IF pvLast.started THEN <<UserData>> ELSE <<>>

\* A logon acknowledgment with status 200 was dispatched on a started
\* listener and userDataStream.subscribe was queued after the logon of that
\* connection.
HandshakeOrderWhileStartedWitness ==
    /\ pvLast.op = "frame" /\ pvLast.kind = "logon_id" /\ pvLast.status = 200
    /\ pvLast.started /\ pvLast.enq = <<UserData>>
    /\ \E i, j \in DOMAIN pvSent :
          /\ i < j
          /\ pvSent[i] = [conn |-> pvLast.conn, msg |-> Logon]
          /\ pvSent[j] = [conn |-> pvLast.conn, msg |-> UserData]

\* C13: every connect that succeeds, the first one and each reconnect,
\* queues one session.logon, and on every transport the first control
\* message queued is a session.logon: nothing of an earlier connection counts.
ConnectRestartsLogon ==
    /\ (pvLast.op \in {"start", "reconnect"} /\ pvLast.res = "ok") =>
          /\ pvLast.enq = <<Logon>>
          /\ pvSent # <<>>
          /\ pvSent[Len(pvSent)] = [conn |-> pvLast.conn, msg |-> Logon]
    /\ \A c \in 1..pvNextConn :
          \E i \in DOMAIN pvSent :
              /\ pvSent[i] = [conn |-> c, msg |-> Logon]
              /\ \A j \in 1..(i - 1) : pvSent[j].conn # c

\* The second transport came up after userDataStream.subscribe had been
\* queued on the first, and session.logon was queued again.
ConnectRestartsLogonWitness ==
    /\ pvLast.op = "reconnect" /\ pvLast.conn = 2 /\ pvLast.enq = <<Logon>>
    /\ \E i \in DOMAIN pvSent : pvSent[i] = [conn |-> 1, msg |-> UserData]

\* C14: an executionReport event enters exactly the handlers of the orders
\* event, an outboundAccountPosition event exactly those of the wallet
\* event, an event of another type none, and no exception leaves the
\* dispatch.
RoutedByType ==
    pvLast.op = "frame" =>
        /\ pvLast.res = "ok"
        /\ pvLast.invO = IF pvLast.kind = "executionReport" THEN pvLast.orders ELSE {}
        /\ pvLast.invW = IF pvLast.kind = "outboundAccountPosition" THEN pvLast.wallet ELSE {}

\* C15: on a started registry kline_unsubscribe(symbol, time_interval) and
\* kline_unsubscribe(symbol) complete without error; each selected key loses its event and its tokens
\* and one UNSUBSCRIBE is sent for it; the other keys and tokens stay.
ForceUnsubscribeRemovesChannel ==
    (regLast.op \in {"unsubscribe_key", "unsubscribe_symbol"} /\ regLast.started) =>
        /\ regLast.res = "ok"
        /\ regLast.hadEvent =>
              /\ regLast.key \notin DOMAIN regSubs
              /\ regLast.enq = <<SubscriptionMsg(regLast.key, FALSE)>>
              /\ \A t \in DOMAIN regHandlers : regHandlers[t] # regLast.key
        /\ \A t \in DOMAIN regLast.handlersBefore :
              regLast.handlersBefore[t] # regLast.key =>
                  t \in DOMAIN regHandlers /\ regHandlers[t] = regLast.handlersBefore[t]

\* C16: on a started registry a handler subscribed to a key is registered;
\* each kline frame of a key enters every handler of the key once with
\* is_closed equal to the frame's x; once kline_unsubscribe(handler_token=)
\* returned the token is registered nowhere, and one UNSUBSCRIBE was sent if
\* it was the key's only handler.
SubscribedHandlerGetsFrames ==
    /\ (regLast.op = "subscribe" /\ regLast.started) =>
          /\ regLast.res = "ok"
          /\ regLast.key \in DOMAIN regSubs
          /\ regLast.tok \in regSubs[regLast.key]
    /\ (regLast.op = "dispatch" /\ regLast.hadEvent) =>
          /\ regLast.res = "ok"
          /\ regLast.inv = regLast.nHandlers
          /\ regLast.closed = regLast.x
    /\ (regLast.op = "unsubscribe_token" /\ regLast.hadEvent) =>
          /\ \A k \in DOMAIN regSubs : regLast.tok \notin regSubs[k]
          /\ regLast.nHandlers = 1 => regLast.enq = <<SubscriptionMsg(regLast.key, FALSE)>>

\* C17: a kline_subscribe on a started registry returns a token no earlier
\* call returned, registered for its key; kline_unsubscribe(handler_token=)
\* leaves every other token registered for the key it had, in that key's event.
TokensAreIsolated ==
    /\ (regLast.op = "subscribe" /\ regLast.started) =>
          /\ regLast.res = "ok"
          /\ regLast.tok \notin DOMAIN regLast.handlersBefore
          /\ regLast.tok \in DOMAIN regHandlers
          /\ regHandlers[regLast.tok] = regLast.key
    /\ regLast.op = "unsubscribe_token" =>
          \A t \in DOMAIN regLast.handlersBefore \ {regLast.tok} :
              /\ t \in DOMAIN regHandlers
              /\ regHandlers[t] = regLast.handlersBefore[t]
              /\ \A k \in DOMAIN regLast.subsBefore :
                    t \in regLast.subsBefore[k] => k \in DOMAIN regSubs /\ t \in regSubs[k]

\* C18: after the orders handler processed a report, the cache has no entry
\* for its order id when its status is Canceled, Rejected or Expired, maps
\* the id to the report otherwise, and keeps every other entry.
OrdersCacheFollowsStatus ==
    wrLast.op = "update_order_reports" =>
        LET r == wrLast.report
        IN  /\ IF r.status \in {"Canceled", "Rejected", "EXPIRED"}
               THEN r.order_id \notin DOMAIN wrOrders
               ELSE r.order_id \in DOMAIN wrOrders /\ wrOrders[r.order_id] = r.status
            /\ \A i \in WrOrderIds \ {r.order_id} :
                  /\ i \in DOMAIN wrOrders <=> i \in DOMAIN wrLast.orders
                  /\ i \in DOMAIN wrOrders => wrOrders[i] = wrLast.orders[i]

\* The value a balance list gives an asset: that of its last item for it
LastAmount(delta, a) ==
    LET at == {i \in DOMAIN delta : delta[i].asset = a}
    IN  delta[CHOOSE i \in at : \A j \in at : j <= i].amount

FacadeStartIsOrdered ==
    /\ (wrLast.op = "start" /\ wrLast.res # "ConnectionError") =>
          /\ wrLast.res = "ok"
          /\ wrLast.steps = <<"public.start", "private.start", "wallet_subscribe",
                              "orders_subscribe", "refresh_wallet", "refresh_open_orders">>
          /\ wrWalletH = 1 /\ wrOrdersH = 1
    /\ wrLast.op = "startAgain" =>
          /\ wrLast.steps = <<>>
          /\ wrWalletH = wrLast.walletH /\ wrOrdersH = wrLast.ordersH

\* C21: a stop() of a started facade returns, leaves the public and the
\* private client stopped and both caches empty, whatever was cached; a
\* stop() of a facade that is not started returns and changes nothing.
FacadeStopClearsState ==
    /\ wrLast.op = "stop" =>
          /\ wrLast.res = "ok"
          /\ ~wrStarted /\ ~wrPublic /\ ~wrPrivate
          /\ wrWallet = NoBalance /\ wrOrders = NoOrders
    /\ wrLast.op = "stopAgain" =>
          /\ wrLast.res = "ok"
          /\ wrWallet = wrLast.wallet /\ wrOrders = wrLast.orders
          /\ wrPublic = wrLast.public /\ wrPrivate = wrLast.private

\* C22: wallet() and open_orders() never hand out the cache object, and a
\* write of the caller through what it was handed leaves both caches as
\* they were.
ReturnedValuesAreCopies ==
    /\ wrHeld.wallet # "cache" /\ wrHeld.orders # "cache"
    /\ wrLast.op = "caller_write" =>
          wrWallet = wrLast.wallet /\ wrOrders = wrLast.orders

\* C23: a refresh whose REST request failed leaves the cache it refreshes
\* as it was.
FailedRefreshKeepsCache ==
    (wrLast.op \in {"refresh_wallet", "refresh_open_orders"} /\ wrLast.rest # "ok") =>
        wrWallet = wrLast.wallet /\ wrOrders = wrLast.orders

\* C24: wallet_subscribe / orders_subscribe of the facade register the
\* handler and return the token the private client minted for it.
FacadeSubscribeReturnsToken ==
    wrLast.op \in {"wallet_subscribe", "orders_subscribe"} =>
        /\ wrLast.res = "ok"
        /\ wrLast.ret = "token"
        /\ wrWalletH + wrOrdersH = wrLast.walletH + wrLast.ordersH + 1

\* C25: wallet_unsubscribe(token) of a token registered on the wallet event
\* returns, leaves the token off the wallet event, so that no later
\* outboundAccountPosition reaches its handler, and leaves the orders event
\* as it was.
WalletUnsubscribeRemovesHandler ==
    (pvLast.op = "wallet_unsubscribe" /\ pvLast.tok \in pvLast.wallet) =>
        /\ pvLast.res = "ok"
        /\ pvLast.tok \notin pvWallet
        /\ pvOrders = pvLast.orders

\* C26: a stop() of a started registry returns and leaves both fan-out maps
\* empty, and the start() that follows returns with a listener and both
\* maps empty.
RestartIsFresh ==
    /\ (regLast.op = "stop" /\ regLast.started) =>
          /\ regLast.res = "ok"
          /\ regSubs = NoSubs /\ regHandlers = NoTokens
    /\ (regLast.op = "start" /\ ~regLast.started) =>
          /\ regLast.res = "ok"
          /\ ListenerPresent
          /\ regSubs = NoSubs /\ regHandlers = NoTokens

\* C29: on a started registry the first kline_subscribe of a key returns
\* having handed one SUBSCRIBE to the connection and registered the handler;
\* a key has a fan-out event exactly while the last control message sent
\* for it is a SUBSCRIBE, so a kline frame dispatched for a key whose
\* SUBSCRIBE was sent finds the key's event and enters its handlers.
NoFrameLostAfterSubscribe ==
    LET subscribed(k) ==
            \E i \in DOMAIN regSent :
                /\ regSent[i] = SubscriptionMsg(k, TRUE)
                /\ \A j \in DOMAIN regSent :
                      j > i => regSent[j] # SubscriptionMsg(k, FALSE)
    IN  /\ (regLast.op = "subscribe" /\ regLast.started /\ ~regLast.hadEvent) =>
              /\ regLast.res = "ok"
              /\ regLast.enq = <<SubscriptionMsg(regLast.key, TRUE)>>
              /\ regLast.key \in DOMAIN regSubs
              /\ regLast.tok \in regSubs[regLast.key]
        /\ \A k \in RegKeys : k \in DOMAIN regSubs <=> subscribed(k)
        /\ (regLast.op = "dispatch" /\ regLast.key # NoKey /\ subscribed(regLast.key)) =>
              /\ regLast.res = "ok"
              /\ regLast.inv >= 1

\* C30: a listen task opens a connection either as its first step or when
\* its sleep of reconnect_delay is over: after a failed attempt, an error or
\* a closure it never goes on to the next attempt without that sleep.
ReconnectWaitsDelay ==
    [][\A t \in TaskIds :
          (lt'[t].pc = "connecting" /\ lt[t].pc \notin {"new", "connecting"}) =>
              lt[t].pc = "sleep"]_vars

RenewalFailureIsNotFatal ==
    [][(psKeep = "renewing" /\ psKeep' # "renewing" /\ psRenewed' = "HTTPError") =>
          /\ psStopEvent' = psStopEvent
          /\ psStartEvent' = psStartEvent
          /\ psTask' = psTask
          /\ ~psStopEvent => psKeep' = "waiting"]_vars

\* After one start() and nothing else, the first renewal failed and the
\* loop is in its second renewal, with the listener started and connected.
RenewalFailureIsNotFatalWitness ==
    /\ psCalls = 1 /\ psLast.op = "start" /\ psLast.res = "ok"
    /\ psRenewed = "HTTPError"
    /\ psRenewals = 2 /\ psKeep = "renewing"
    /\ ~psStopEvent /\ psStartEvent

\* C31: while the listener is started, the step that ends the dispatch of
\* an inbound frame takes the connect loop back to reading the connection:
\* whatever the on_message handler did, the loop goes on.
StartedLoopIsAlive ==
    [][\A t \in TaskIds :
          (lt[t].pc = "onMessage" /\ ~lt[t].cancel /\ ~stopEvent /\ ~stopEvent') =>
              lt'[t].pc \in {"onMessage", "reading"} \/ lt'[t].cancel]_vars

SendTaskRunsWhileConnected ==
    \A t \in TaskIds :
        (/\ lsTask = t
         /\ lt[t].pc \in {"reading", "onMessage"} /\ ~lt[t].cancel
         /\ ~stopEvent /\ startEvent
         /\ lsWs = lt[t].ws /\ tr[lt[t].ws] = "open")
            => (lsSendTask # None /\ st[lsSendTask].pc # "done")

\* C34: no message accepted by send() is taken from the queue without being
\* written while the listener stays started, and while the listener is
\* connected a message waiting in the queue has a live send task to write it.
AcceptedMessagesAreWritten ==
    /\ [][(~stopEvent /\ ~stopEvent') => lost' \subseteq lost]_vars
    /\ []((/\ \E t \in TaskIds :
                 /\ lsTask = t
                 /\ lt[t].pc \in {"reading", "onMessage"} /\ ~lt[t].cancel
                 /\ lsWs = lt[t].ws /\ tr[lt[t].ws] = "open"
           /\ ~stopEvent /\ startEvent
           /\ \E i \in DOMAIN queue : queue[i] # None)
              => AliveSendTasks # {})

CallbacksArePaired ==
    /\ [][\A t \in TaskIds :
            (/\ cbInstalled
             /\ lt[t].pc \in {"reading", "onMessage", "aexit", "onError"}
             /\ lt[t].ws # 0)
                => lt'[t].pc \in {"reading", "onMessage", "aexit", "onError", "onClose"}]_vars
    /\ [][\A t \in TaskIds :
            (lt'[t].pc = "onClose" /\ lt[t].pc # "onClose")
                => (/\ lt[t].ws # 0
                    /\ lt[t].pc \in {"reading", "onMessage", "aexit", "onError"})]_vars

\* C37: a start() of the registry, of the private client or of the facade
\* that raised has left the component not started.
FailedStartLeavesNotStarted ==
    /\ (regLast.op = "start" /\ regLast.res # "ok") => ~regStarted
    /\ (pvLast.op = "start" /\ pvLast.res # "ok") => ~pvStarted
    /\ (wrLast.op = "start" /\ wrLast.res # "ok") => ~wrStarted

\* C38: the facade's two reconciliation handlers return normally for every
\* balance list and for every order report.
ReconciliationNeverRaises ==
    wrLast.op \in {"update_wallet", "update_order_reports"} => wrLast.res = "ok"

\* C39: the step in which the acquisition of the listen key fails ends
\* start() with the error and leaves the listener stopped: the stop event is
\* set, no connect loop is alive, and the step created neither a connect
\* loop nor a keepalive task.
FailedKeyLeavesStopped ==
    [][(psCall.start = "key" /\ psCall'.start = "idle") =>
          /\ psLast'.op = "start" /\ psLast'.res = "HTTPError"
          /\ psStopEvent'
          /\ psTask' = psTask /\ psTask' \notin {"connecting", "reading"}
          /\ psKeep' = psKeep]_vars

\* A start() has just raised the error of the listen-key request, on a
\* listener an earlier start of which had succeeded.
FailedKeyLeavesStoppedWitness ==
    /\ psLast.op = "start" /\ psLast.res = "HTTPError"
    /\ psCall.start = "idle"
    /\ psStopEvent
    /\ psListenKey >= 1
    /\ psTask = "done"

====
